---- MODULE Spec2Model ----
(***************************************************************************)
(* A model of Ava's Game Box (ngowdar/ava-game): the screen router         *)
(* (src/app.py), the particle pool of the particle playground              *)
(* (src/screens/particle_playground.py) and the scrollable toolbar         *)
(* (src/ui.py).                                                            *)
(*                                                                         *)
(* The specifications share the variables, each driving one part:          *)
(*   Spec            the App router driven by arbitrary calls;             *)
(*   SpecPool        one ParticlePool driven by emit / update / clear;     *)
(*   SpecPlayground  the ParticlePlaygroundScreen driven by pointer        *)
(*                   events, frames and the router's enter hook;           *)
(*   SpecMotion      one ParticlePool with its positions and velocities;   *)
(*   SpecSorter      the ShapeSorterScreen inside the application;         *)
(*   SpecWeather     the WeatherToyScreen inside the application;          *)
(*   SpecBubbles     the two bubble games, one step per iteration of the   *)
(*                   sampling loop of spawn_bubble;                        *)
(*   SpecRemote      the shows and the remote inside the application, and  *)
(*                   the threads of the Roku helper;                       *)
(*   SpecVideos      the VideosScreen inside the application, and the      *)
(*                   threads playing its videos;                           *)
(*   SpecVideosLive  the same with threads that run to their end;          *)
(*   SpecLoop        the render loop of main, one step per call it makes   *)
(*                   on the router, on the path main menu -> videos;       *)
(*   SpecNav         the two menus and the navigation between the eleven   *)
(*                   screens main registers;                               *)
(*   SpecFireworks   the FireworksScreen inside the application, updated   *)
(*                   frame after frame.                                    *)
(* A specification leaves the variables of the other parts unchanged.      *)
(***************************************************************************)
EXTENDS Integers, Sequences, FiniteSets, TLC

VARIABLES
    \* ---- App (src/app.py) ----
    screens,      \* App.screens : dict state -> screen object
    state,        \* App.state   : the current screen id
    history,      \* App.history : list of screen ids (a stack)
    app_log,      \* history variable: the last router call, the state before
                  \* it, the screen hooks it invoked and the exception raised
    \* ---- ParticlePool (src/screens/particle_playground.py) ----
    count,        \* ParticlePool.count    : number of live particles
    life,         \* ParticlePool.life     : slot -> remaining life
    max_life,     \* ParticlePool.max_life : slot -> life at emission
    size,         \* ParticlePool.size     : slot -> side of the drawn square
    age,          \* history variable: slot -> the exact sum of the dt of the
                  \* updates since the particle in the slot was emitted
    exact,        \* history variable: slot -> every subtraction applied to
                  \* the particle's life so far was free of rounding
    pool_log,     \* history variable: the last call made on the pool by
                  \* SpecPool, its result and the particles it removed
    \* ---- ParticlePlaygroundScreen (src/screens/particle_playground.py) ----
    mode,         \* ParticlePlaygroundScreen.mode        : selected emitter
    palette,      \* ParticlePlaygroundScreen.palette     : selected palette
    hue,          \* ParticlePlaygroundScreen.hue         : degrees
    touching,     \* ParticlePlaygroundScreen.touching
    touch_x,      \* ParticlePlaygroundScreen.touch_x     : pixels
    touch_y,      \* ParticlePlaygroundScreen.touch_y     : pixels
    back_rect,    \* ParticlePlaygroundScreen.back_rect   : None or a Rect
    rain_timer,   \* ParticlePlaygroundScreen._rain_timer : milliseconds
    toolbar,      \* ParticlePlaygroundScreen.toolbar     : a ScrollToolbar
    screen_log,   \* history variable: the last method of the playground
                  \* screen that ran
    \* ---- ParticlePool, kinematic arrays ----
    body,         \* ParticlePool.x, .y, .vx, .vy : slot -> thousandths of a
                  \* pixel (per second)
    \* ---- ShapeSorterScreen (src/screens/shape_sorter.py) ----
    sorter,       \* the screen object: shapes, particles, confetti,
                  \* dragged_shape, drag_offset, celebrating,
                  \* celebrate_timer, back_rect
    \* ---- WeatherToyScreen (src/screens/weather_toy.py) ----
    weather,      \* the screen object: scene, toolbar, back_rect,
                  \* _tap_point, _tap_age
    \* ---- BubblePopScreen (src/screens/bubble_pop.py), AvaGameBox (src/ava_games.py) ----
    bubble,       \* the game object: bubbles, back_rect or state, and the
                  \* position of its spawn_bubble loop
    \* ---- ShowsScreen (src/screens/shows.py) ----
    shows,        \* the screen: scroll_y, the touch being tracked, press, back_rect
    \* ---- RemoteScreen (src/screens/remote.py) ----
    remote,       \* the screen: press, back_rect
    \* ---- roku (src/roku.py) ----
    roku,         \* the module: ENABLED, the threads it started and have not ended,
                  \* and the last step made in it
    \* ---- VideosScreen (src/screens/videos.py) ----
    videos,       \* the screen: playing, scroll_y, the touch being tracked, press,
                  \* back_rect, and the threads running _play_video
    \* ---- main (src/main.py) ----
    loop,         \* the render loop: where it is in the frame, dt, the events of
                  \* the frame, and history: the calls made on the router this frame
    \* ---- MainMenuScreen (src/screens/main_menu.py), GamesMenuScreen (src/screens/games_menu.py) ----
    menus,        \* the two menus (pending_nav, the buttons, back_rect), the back_rect
                  \* of every other screen, and history: the taps and the updates
                  \* since the last tap
    \* ---- FireworksScreen (src/screens/fireworks.py) ----
    fireworks     \* the screen: rockets, back_rect, and history: the explosions
                  \* the last update spawned

appVars == <<screens, state, history, app_log>>
poolVars == <<count, life, max_life, size, age, exact, pool_log>>
screenVars == <<mode, palette, hue, touching, touch_x, touch_y, back_rect,
                rain_timer, toolbar, screen_log>>

\* The variables of the parts that the router, the pool and the playground
\* specifications leave alone.
laterVars == <<body, sorter, weather, bubble, shows, remote, roku, videos,
               loop, menus, fireworks>>

\* The variables of every later part but the named one.
allButBody == <<sorter, weather, bubble, shows, remote, roku, videos, loop,
                menus, fireworks>>
allButSorter == <<body, weather, bubble, shows, remote, roku, videos, loop,
                  menus, fireworks>>
allButWeather == <<body, sorter, bubble, shows, remote, roku, videos, loop,
                   menus, fireworks>>
allButBubble == <<body, sorter, weather, shows, remote, roku, videos, loop,
                  menus, fireworks>>
allButShows == <<body, sorter, weather, bubble, remote, roku, videos, loop,
                 menus, fireworks>>
allButRemote == <<body, sorter, weather, bubble, shows, roku, videos, loop,
                  menus, fireworks>>
allButRoku == <<body, sorter, weather, bubble, shows, remote, videos, loop,
                menus, fireworks>>
allButVideos == <<body, sorter, weather, bubble, shows, remote, roku, loop,
                  menus, fireworks>>
allButLoop == <<body, sorter, weather, bubble, shows, remote, roku, videos,
                menus, fireworks>>
allButMenus == <<body, sorter, weather, bubble, shows, remote, roku,
                 videos, loop, fireworks>>
allButFireworks == <<body, sorter, weather, bubble, shows, remote, roku,
                     videos, loop, menus>>

\* The variables of every later part but the shows, the remote and roku.
allButRemoteParts == <<body, sorter, weather, bubble, videos, loop, menus,
                       fireworks>>

\* The variables of every later part but the videos and the render loop.
allButVideosLoop == <<body, sorter, weather, bubble, shows, remote, roku,
                     menus, fireworks>>

\* ---------------------------------------------------------------------------
\* Bounds
\* ---------------------------------------------------------------------------

\* The longest history the router model explores (go_to is not called beyond).
MaxHistory == 3

\* The capacity the pool is constructed with (the playground passes
\* MAX_PARTICLES = 2500).
Capacity == 3

\* Significant bits of the binary floating-point format of the model (a
\* Python float has 53).
MantissaBits == 3

\* The number of shapes of the shape sorter (SHAPE_DEFS lists 5).
ShapeCount == 2

\* The largest number of events pygame.event.get() returns in a frame.
MaxEvents == 2

\* The number of videos of VIDEOS_DATA.
VideoCount == 9

\* The largest number of threads of the Roku helper alive at a time (a
\* command that would start one more is not given).
MaxThreads == 2

\* The largest number of rockets in flight at a time (a press that would
\* launch one more is not given).
MaxRockets == 2

\* The number of spawn_bubble calls of one batch (on_enter makes 12, the
\* splash button of the stand-alone game 10).
SpawnBatch == 2

\* ---------------------------------------------------------------------------
\* config.py: screen ids
\* ---------------------------------------------------------------------------

MAIN_MENU == "MAIN_MENU"
GAMES_MENU == "GAMES_MENU"
FINGER_PAINT == "FINGER_PAINT"
SHAPE_SORTER == "SHAPE_SORTER"
MAGIC_GARDEN == "MAGIC_GARDEN"
FIREWORKS == "FIREWORKS"
PARTICLE_PLAYGROUND == "PARTICLE_PLAYGROUND"
WEATHER_TOY == "WEATHER_TOY"
SHOWS == "SHOWS"
REMOTE == "REMOTE"
VIDEOS == "VIDEOS"

\* The ids the router model is called with.
States == {MAIN_MENU, GAMES_MENU, PARTICLE_PLAYGROUND}

\* The screen objects handed to register: the router only looks at whether
\* the object has an on_enter attribute (hasattr).  Every screen implements
\* handle_event, update and draw.
ScreenObjects == {[has_on_enter |-> TRUE], [has_on_enter |-> FALSE]}

\* ---------------------------------------------------------------------------
\* Python primitives used by the router
\* ---------------------------------------------------------------------------

NoError == "none"

\* dict.get(key): the value, or None when the key is missing (never raises).
None == [none |-> TRUE]
DictGet(d, k) == IF k \in DOMAIN d THEN d[k] ELSE None

\* list.pop(): removes and returns the last element; IndexError on [].
ListPop(l) ==
    IF Len(l) = 0
    THEN [raised |-> "IndexError", value |-> None, rest |-> l]
    ELSE [raised |-> NoError, value |-> l[Len(l)], rest |-> SubSeq(l, 1, Len(l) - 1)]

\* `if screen and hasattr(screen, "on_enter")`
HasEnterHook(screen) == screen # None /\ screen.has_on_enter

\* One invocation of a method of the screen registered for id, with the
\* router fields as they are at the moment of the call.
HookCall(hook, id, st, hist) == [hook |-> hook, screen |-> id, state |-> st, history |-> hist]

\* ---------------------------------------------------------------------------
\* App: the operations as functions of the router record
\*   a = [screens, state, history];  the result adds calls (the screen
\*   methods invoked, in order) and raised (the exception that escapes the
\*   call, or NoError).
\* ---------------------------------------------------------------------------

App == [screens |-> screens, state |-> state, history |-> history]

Result(scr, st, hist, calls, raised) ==
    [screens |-> scr, state |-> st, history |-> hist, calls |-> calls, raised |-> raised]

\* App.register
App_register(a, s, screen) ==
    Result([k \in DOMAIN a.screens \cup {s} |-> IF k = s THEN screen ELSE a.screens[k]],
           a.state, a.history, <<>>, NoError)

\* Mutant of App_go_to: the state is switched before it is pushed, so the
\* new id lands on the history.
App_go_to_push_after(a, s) ==
    LET hist == Append(a.history, s)
        screen == DictGet(a.screens, s)
    IN  Result(a.screens, s, hist,
               IF HasEnterHook(screen) THEN <<HookCall("on_enter", s, s, hist)>> ELSE <<>>,
               NoError)

\* Mutant of App_go_to: on_enter is invoked first, before the push and the
\* switch.
App_go_to_enter_first(a, s) ==
    LET hist == Append(a.history, a.state)
        screen == DictGet(a.screens, s)
    IN  Result(a.screens, s, hist,
               IF HasEnterHook(screen)
               THEN <<HookCall("on_enter", s, a.state, a.history)>> ELSE <<>>,
               NoError)

\* App.go_to
App_go_to(a, s) ==
    LET hist == Append(a.history, a.state)
        screen == DictGet(a.screens, s)
    IN  Result(a.screens, s, hist,
               IF HasEnterHook(screen) THEN <<HookCall("on_enter", s, s, hist)>> ELSE <<>>,
               NoError)

\* Mutant of App_go_back: the `if self.history` guard is missing.
App_go_back_unguarded(a) ==
    LET p == ListPop(a.history)
    IN  IF p.raised # NoError
        THEN Result(a.screens, a.state, a.history, <<>>, p.raised)
        ELSE LET screen == DictGet(a.screens, p.value)
             IN  Result(a.screens, p.value, p.rest,
                        IF HasEnterHook(screen)
                        THEN <<HookCall("on_enter", p.value, p.value, p.rest)>> ELSE <<>>,
                        NoError)

\* App.go_back
App_go_back(a) ==
    IF a.history # <<>>
    THEN LET p == ListPop(a.history)
             screen == DictGet(a.screens, p.value)
         IN  Result(a.screens, p.value, p.rest,
                    IF HasEnterHook(screen)
                    THEN <<HookCall("on_enter", p.value, p.value, p.rest)>> ELSE <<>>,
                    p.raised)
    ELSE Result(a.screens, a.state, a.history, <<>>, NoError)

\* Mutant of App_dispatch: self.screens[self.state] instead of .get().
App_dispatch_subscript(a, hook) ==
    IF a.state \in DOMAIN a.screens
    THEN Result(a.screens, a.state, a.history,
                <<HookCall(hook, a.state, a.state, a.history)>>, NoError)
    ELSE Result(a.screens, a.state, a.history, <<>>, "KeyError")

\* App.handle_event / App.update / App.draw: each looks the current screen up
\* with .get() and forwards to it when there is one.
App_dispatch(a, hook) ==
    LET screen == DictGet(a.screens, a.state)
    IN  Result(a.screens, a.state, a.history,
               IF screen # None
               THEN <<HookCall(hook, a.state, a.state, a.history)>> ELSE <<>>,
               NoError)

App_handle_event(a) == App_dispatch(a, "handle_event")
App_update(a) == App_dispatch(a, "update")
App_draw(a) == App_dispatch(a, "draw")

\* ---------------------------------------------------------------------------
\* Floating point.  Times are Python floats; the model keeps them as integer
\* multiples of a tenth of a second and rounds every result to
\* MantissaBits significant bits, to nearest, ties to even, as IEEE 754
\* arithmetic does with 53 bits.
\* ---------------------------------------------------------------------------

Abs(v) == IF v < 0 THEN -v ELSE v

RECURSIVE Pow2(_)
Pow2(n) == IF n = 0 THEN 1 ELSE 2 * Pow2(n - 1)

RECURSIVE BitLen(_)
BitLen(m) == IF m = 0 THEN 0 ELSE 1 + BitLen(m \div 2)

\* The float nearest to the real number v.
RoundToFloat(v) ==
    LET m == Abs(v)
        e == BitLen(m)
    IN  IF e <= MantissaBits
        THEN v
        ELSE LET ulp == Pow2(e - MantissaBits)
                 q == m \div ulp
                 r == m % ulp
                 up == (2 * r > ulp) \/ (2 * r = ulp /\ q % 2 = 1)
                 n == (IF up THEN q + 1 ELSE q) * ulp
             IN  IF v < 0 THEN -n ELSE n

\* a - b on floats.
FSub(a, b) == RoundToFloat(a - b)

\* ---------------------------------------------------------------------------
\* ParticlePool.  The model keeps the arrays life, max_life and size; the
\* arrays x, y, vx, vy, r, g, b are written by emit and copied by the
\* swap-remove exactly as size is, and their integration (lines 113-127)
\* reads and writes none of life, max_life, size or count.
\* ---------------------------------------------------------------------------

\* Array indices of a pool of capacity Capacity.
Slots == 0..(Capacity - 1)

\* [1.0] * capacity and [2] * capacity
InitialMaxLife == 10
InitialSize == 2

\* The values emit is called with (plife in tenths of a second, psize) and
\* the frame deltas update is called with; each is a float of the model for
\* every MantissaBits >= 3.
Lifetimes == {-1, 0, 10, 20}
Sizes == {3}
Dts == {0, 5}

\* The pool and its history variables as one record.
Pool ==
    [count |-> count, life |-> life, max_life |-> max_life, size |-> size,
     age |-> age, exact |-> exact]

\* ParticlePool.__init__
ParticlePool_new ==
    [count |-> 0,
     life |-> [i \in Slots |-> 0],
     max_life |-> [i \in Slots |-> InitialMaxLife],
     size |-> [i \in Slots |-> InitialSize],
     age |-> [i \in Slots |-> 0],
     exact |-> [i \in Slots |-> TRUE]]

\* ParticlePool.clear
ParticlePool_clear(w) == [w EXCEPT !.count = 0]

\* Mutant of PoolFull: the guard admits i == cap.
PoolFull_off_by_one(i) == i > Capacity

\* Mutant of PoolFull: the guard refuses the last free slot.
PoolFull_one_early(i) == i >= Capacity - 1

\* `if i >= self.cap`
PoolFull(i) == i >= Capacity

\* Mutant of ParticlePool_emit: max_life is not written.
ParticlePool_emit_keeps_max_life(w, plife, psize) ==
    LET i == w.count
    IN  IF PoolFull(i)
        THEN [pool |-> w, ret |-> "False", raised |-> NoError]
        ELSE IF i \notin Slots
        THEN [pool |-> w, ret |-> "None", raised |-> "IndexError"]
        ELSE [pool |-> [w EXCEPT !.life[i] = plife,
                                 !.size[i] = psize,
                                 !.age[i] = 0,
                                 !.exact[i] = TRUE,
                                 !.count = i + 1],
              ret |-> "True", raised |-> NoError]

\* ParticlePool.emit: the pool after the call, the value returned ("True",
\* "False", or "None" when the call does not return) and the exception
\* raised.  Assigning to list index i raises IndexError unless
\* i < len(list) = cap, and the first assignment (self.x[i] = px) would raise
\* before anything is stored.
ParticlePool_emit(w, plife, psize) ==
    LET i == w.count
    IN  IF PoolFull(i)
        THEN [pool |-> w, ret |-> "False", raised |-> NoError]
        ELSE IF i \notin Slots
        THEN [pool |-> w, ret |-> "None", raised |-> "IndexError"]
        ELSE [pool |-> [w EXCEPT !.life[i] = plife,
                                 !.max_life[i] = plife,
                                 !.size[i] = psize,
                                 !.age[i] = 0,
                                 !.exact[i] = TRUE,
                                 !.count = i + 1],
              ret |-> "True", raised |-> NoError]

\* Mutant of IsDead: a particle whose life is exactly 0 survives.
IsDead_strict(l) == l < 0

\* `if life[i] <= 0.0`
IsDead(l) == l <= 0

\* Mutant of AfterRemove: the loop steps on after a swap-remove, so the
\* particle swapped into slot i is not processed in this update.
AfterRemove_step(i) == i + 1

\* `continue` after the swap-remove: slot i is processed again.
AfterRemove(i) == i

\* The particle in slot i, as the history variable `removed` records it.
Particle(w, i) ==
    [life |-> w.life[i], max_life |-> w.max_life[i], size |-> w.size[i],
     age |-> w.age[i], exact |-> w.exact[i]]

\* The while loop of ParticlePool.update: w is the pool, i the loop index,
\* n the local live count, removed the particles removed so far.
RECURSIVE UpdateLoop(_, _, _, _, _)
UpdateLoop(w, i, n, dt, removed) ==
    IF ~(i < n)
    THEN [pool |-> [w EXCEPT !.count = n], removed |-> removed]
    ELSE LET d == FSub(w.life[i], dt)
             w1 == [w EXCEPT !.life[i] = d,
                             !.exact[i] = @ /\ (d = w.life[i] - dt)]
         IN  IF IsDead(d)
             THEN LET m == n - 1
                      w2 == [w1 EXCEPT !.life[i] = w1.life[m],
                                       !.max_life[i] = w1.max_life[m],
                                       !.size[i] = w1.size[m],
                                       !.age[i] = w1.age[m],
                                       !.exact[i] = w1.exact[m]]
                  IN  UpdateLoop(w2, AfterRemove(i), m, dt, Append(removed, Particle(w1, i)))
             ELSE UpdateLoop(w1, i + 1, n, dt, removed)

\* ParticlePool.update(dt, gravity).  The history variable age of every
\* particle live at the call grows by dt; slots outside the live region
\* carry no history afterwards.
ParticlePool_update(w, dt) ==
    LET aged == [w EXCEPT !.age = [i \in Slots |-> IF i < w.count THEN @[i] + dt ELSE @[i]]]
        r == UpdateLoop(aged, 0, w.count, dt, <<>>)
        p == r.pool
    IN  [pool |-> [p EXCEPT !.age = [i \in Slots |-> IF i < p.count THEN @[i] ELSE 0],
                            !.exact = [i \in Slots |-> IF i < p.count THEN @[i] ELSE TRUE]],
         removed |-> r.removed]

\* ParticlePool.draw: one filled square per live slot, in slot order; faded
\* tells whether the colour is scaled (frac < 0.3).
ParticlePool_draw(w) ==
    [k \in 1..w.count |->
        LET i == k - 1
        IN  [slot |-> i, life |-> w.life[i], max_life |-> w.max_life[i], size |-> w.size[i],
             faded |-> w.max_life[i] > 0 /\ 10 * w.life[i] < 3 * w.max_life[i]]]

\* ---------------------------------------------------------------------------
\* config.py and pygame: the display, pointer events, rectangles
\* ---------------------------------------------------------------------------

WIDTH == 720
HEIGHT == 720
BACK_BTN_SIZE == 80
BACK_BTN_MARGIN == 15

MOUSEBUTTONDOWN == "MOUSEBUTTONDOWN"
MOUSEMOTION == "MOUSEMOTION"
MOUSEBUTTONUP == "MOUSEBUTTONUP"

Max(a, b) == IF a >= b THEN a ELSE b
Min(a, b) == IF a <= b THEN a ELSE b

\* pygame.Rect(x, y, w, h)
Rect(x, y, w, h) == [x |-> x, y |-> y, w |-> w, h |-> h]

\* pygame.Rect.collidepoint: the right and bottom edges are outside.
Rect_collidepoint(r, mx, my) ==
    /\ r.x <= mx /\ mx < r.x + r.w
    /\ r.y <= my /\ my < r.y + r.h

\* ui.draw_back_button returns the rect it drew.
draw_back_button == Rect(BACK_BTN_MARGIN, BACK_BTN_MARGIN, BACK_BTN_SIZE, BACK_BTN_SIZE)

\* ---------------------------------------------------------------------------
\* ui.py: ScrollToolbar.  scroll_x, _drag_start_scroll and _velocity are
\* Python numbers; the model keeps them in thousandths of a pixel (per
\* second) and rounds a product to the nearest thousandth, ties to even.
\* Pointer coordinates are whole pixels and dt is in tenths of a second.
\* ---------------------------------------------------------------------------

Milli == 10 * 10 * 10

\* p / d rounded to the nearest integer, ties to even (d > 0).
RoundDiv(p, d) ==
    LET m == Abs(p)
        q == m \div d
        r == m % d
        up == (2 * r > d) \/ (2 * r = d /\ q % 2 = 1)
        n == IF up THEN q + 1 ELSE q
    IN  IF p < 0 THEN -n ELSE n

\* int(x) for x in thousandths: truncation toward zero.
IntTrunc(x) == IF x >= 0 THEN x \div Milli ELSE -((-x) \div Milli)

\* Mutant of ScrollToolbar_new: the limit is the content that does not fit,
\* without the 10 pixels added to it.
ScrollToolbar_new_unpadded(left_x, y, height, btn_width, btn_gap, btn_count) ==
    LET total_content == btn_count * btn_width + (btn_count - 1) * btn_gap
        visible == WIDTH - left_x
    IN  [left_x |-> left_x, y |-> y, height |-> height,
         btn_width |-> btn_width, btn_gap |-> btn_gap, btn_count |-> btn_count,
         scroll_x |-> 0,
         dragging |-> FALSE,
         drag_start_x |-> 0,
         drag_start_scroll |-> 0,
         velocity |-> 0,
         last_mx |-> 0,
         was_drag |-> FALSE,
         max_scroll |-> Max(0, total_content - visible)]

\* ScrollToolbar.__init__
ScrollToolbar_new(left_x, y, height, btn_width, btn_gap, btn_count) ==
    LET total_content == btn_count * btn_width + (btn_count - 1) * btn_gap
        visible == WIDTH - left_x
    IN  [left_x |-> left_x, y |-> y, height |-> height,
         btn_width |-> btn_width, btn_gap |-> btn_gap, btn_count |-> btn_count,
         scroll_x |-> 0,
         dragging |-> FALSE,
         drag_start_x |-> 0,
         drag_start_scroll |-> 0,
         velocity |-> 0,
         last_mx |-> 0,
         was_drag |-> FALSE,
         max_scroll |-> Max(0, total_content - visible + 10)]

\* Mutant of ClampScroll: an offset beyond an end of the range comes back
\* from it by as much.
ClampScroll_bounce(tb, x) ==
    IF x < 0 THEN Min(tb.max_scroll * Milli, -x)
    ELSE IF x > tb.max_scroll * Milli THEN Max(0, 2 * tb.max_scroll * Milli - x)
    ELSE x

\* Mutant of ClampScroll: the offset is kept from going below 0 only.
ClampScroll_no_upper(tb, x) == Max(0, x)

\* max(0, min(self.max_scroll, x)) for x in thousandths
ClampScroll(tb, x) == Max(0, Min(tb.max_scroll * Milli, x))

\* ScrollToolbar.get_btn_rects: a sequence, button i at position i + 1.
ScrollToolbar_get_btn_rects(tb) ==
    [k \in 1..tb.btn_count |->
        LET i == k - 1
            x == (tb.left_x + i * (tb.btn_width + tb.btn_gap)) * Milli - tb.scroll_x
        IN  Rect(IntTrunc(x), tb.y, tb.btn_width, tb.height)]

\* `self.y <= my <= self.y + self.height`
InBand(tb, my) == tb.y <= my /\ my <= tb.y + tb.height

\* ScrollToolbar.handle_event: the toolbar after the event and the value
\* returned (True when the event was consumed).
ScrollToolbar_handle_event(tb, ev) ==
    LET mx == ev.pos[1]
        my == ev.pos[2]
    IN  IF ev.type = MOUSEBUTTONDOWN
        THEN IF InBand(tb, my) /\ mx >= tb.left_x
             THEN [toolbar |-> [tb EXCEPT !.dragging = TRUE,
                                          !.drag_start_x = mx,
                                          !.drag_start_scroll = tb.scroll_x,
                                          !.last_mx = mx,
                                          !.was_drag = FALSE,
                                          !.velocity = 0],
                   ret |-> TRUE]
             ELSE [toolbar |-> tb, ret |-> FALSE]
        ELSE IF ev.type = MOUSEMOTION /\ tb.dragging
        THEN LET dx == tb.drag_start_x - mx
             IN  [toolbar |-> [tb EXCEPT !.was_drag = (Abs(dx) > 8) \/ @,
                                         !.scroll_x = ClampScroll(tb, tb.drag_start_scroll + dx * Milli),
                                         !.velocity = (tb.last_mx - mx) * 4 * Milli,
                                         !.last_mx = mx],
                  ret |-> TRUE]
        ELSE IF ev.type = MOUSEBUTTONUP /\ tb.dragging
        THEN [toolbar |-> [tb EXCEPT !.dragging = FALSE], ret |-> tb.was_drag]
        ELSE [toolbar |-> tb, ret |-> FALSE]

\* Mutant of ScrollToolbar_update: the momentum is applied without
\* friction.
ScrollToolbar_update_no_friction(tb, dt) ==
    IF ~tb.dragging /\ Abs(tb.velocity) > Milli
    THEN [tb EXCEPT !.scroll_x = ClampScroll(tb, tb.scroll_x + RoundDiv(tb.velocity * dt, 10))]
    ELSE tb

\* ScrollToolbar.update: momentum and friction.
ScrollToolbar_update(tb, dt) ==
    IF ~tb.dragging /\ Abs(tb.velocity) > Milli
    THEN [tb EXCEPT !.scroll_x = ClampScroll(tb, tb.scroll_x + RoundDiv(tb.velocity * dt, 10)),
                    !.velocity = RoundDiv(tb.velocity * 9, 10)]
    ELSE tb

\* The index of the first rect of the sequence that contains the point, or -1.
FirstRectAt(rects, mx, my) ==
    LET hits == {k \in 1..Len(rects) : Rect_collidepoint(rects[k], mx, my)}
    IN  IF hits = {} THEN -1
        ELSE (CHOOSE k \in hits : \A j \in hits : k <= j) - 1

\* Mutant of ScrollToolbar_get_btn_at: the hit test looks at the position
\* only, drag or not.
ScrollToolbar_get_btn_at_positional(tb, pos) ==
    IF ~InBand(tb, pos[2]) THEN -1
    ELSE FirstRectAt(ScrollToolbar_get_btn_rects(tb), pos[1], pos[2])

\* ScrollToolbar.get_btn_at
ScrollToolbar_get_btn_at(tb, pos) ==
    IF tb.was_drag THEN -1
    ELSE IF ~InBand(tb, pos[2]) THEN -1
    ELSE FirstRectAt(ScrollToolbar_get_btn_rects(tb), pos[1], pos[2])

\* ---------------------------------------------------------------------------
\* ParticlePlaygroundScreen.  The fields the model keeps are the ones listed
\* under VARIABLES and the pool; positions, velocities and colours of the
\* particles are not kept, so the forces (_apply_swirl_forces, _apply_wind),
\* which write vx and vy only, leave the model's state alone.
\* ---------------------------------------------------------------------------

TOOLBAR_H == 80

MODE_FOUNTAIN == 0
MODE_RAIN == 1
MODE_SWIRL == 2
MODE_EXPLOSION == 3

PAL_RAINBOW == 0

\* _build_toolbar: the mode strip
PlaygroundToolbar == ScrollToolbar_new(110, (TOOLBAR_H - 56) \div 2, 56, 120, 8, 4)

\* _build_toolbar: the palette dots
pal_rects ==
    LET dot_r == 20
        dot_gap == 10
        mode_end == 110 + 4 * (120 + 8)
        px == mode_end + 8
        cy == TOOLBAR_H \div 2
    IN  [k \in 1..4 |->
            LET cx == px + (k - 1) * (dot_r * 2 + dot_gap)
            IN  Rect(cx - dot_r, cy - dot_r, dot_r * 2, dot_r * 2)]

\* What the emitters draw at random for one particle: life (tenths of a
\* second, within the emitter's random.uniform range) and size (one of the
\* emitter's random.choice values).
ParticleDraws(m) ==
    CASE m = MODE_FOUNTAIN  -> {[life |-> 32, size |-> 3]}
      [] m = MODE_RAIN      -> {[life |-> 40, size |-> 2]}
      [] m = MODE_SWIRL     -> {[life |-> 32, size |-> 3]}
      [] m = MODE_EXPLOSION -> {[life |-> 24, size |-> 3]}

\* The draws of a burst of n particles: draw k is used by the k-th emit
\* call.  Only the draws of the calls that find a free slot are kept: what
\* is drawn for a call that returns False is stored nowhere.
BurstDraws(m, w, n) == [1..Min(n, Max(0, Capacity - w.count)) -> ParticleDraws(m)]

\* The draw of the k-th emit call of a burst.
DrawOf(draws, k) ==
    IF k \in DOMAIN draws THEN draws[k] ELSE [life |-> 32, size |-> 3]

\* Mutant of EmitLoop: a call that returns False is followed by one more
\* call before the loop is left.
RECURSIVE EmitLoop_one_more(_, _, _, _)
EmitLoop_one_more(w, n, draws, k) ==
    IF n = 0
    THEN [pool |-> w, rets |-> <<>>]
    ELSE LET d == DrawOf(draws, k)
             r == ParticlePool_emit(w, d.life, d.size)
         IN  IF r.ret = "True"
             THEN LET rest == EmitLoop_one_more(r.pool, n - 1, draws, k + 1)
                  IN  [pool |-> rest.pool, rets |-> <<r.ret>> \o rest.rets]
             ELSE IF n > 1
             THEN LET again == ParticlePool_emit(r.pool, d.life, d.size)
                  IN  [pool |-> again.pool, rets |-> <<r.ret, again.ret>>]
             ELSE [pool |-> r.pool, rets |-> <<r.ret>>]

\* `for _ in range(n): ... if not pool.emit(...): break`, from the k-th
\* draw: the pool after the loop and what the emit calls returned, in order.
RECURSIVE EmitLoop(_, _, _, _)
EmitLoop(w, n, draws, k) ==
    IF n = 0
    THEN [pool |-> w, rets |-> <<>>]
    ELSE LET d == DrawOf(draws, k)
             r == ParticlePool_emit(w, d.life, d.size)
         IN  IF r.ret = "True"
             THEN LET rest == EmitLoop(r.pool, n - 1, draws, k + 1)
                  IN  [pool |-> rest.pool, rets |-> <<r.ret>> \o rest.rets]
             ELSE [pool |-> r.pool, rets |-> <<r.ret>>]

\* interval = 1.0 / rate, in milliseconds
RainInterval == 5

\* The while loop of _emit_rain, timer in milliseconds: the pool and the
\* timer after the loop and what the emit calls returned, in order.
RECURSIVE RainLoop(_, _, _, _)
RainLoop(w, timer, draws, k) ==
    IF ~(timer >= RainInterval)
    THEN [pool |-> w, timer |-> timer, rets |-> <<>>]
    ELSE LET t == timer - RainInterval
             d == DrawOf(draws, k)
             r == ParticlePool_emit(w, d.life, d.size)
         IN  IF r.ret = "True"
             THEN LET rest == RainLoop(r.pool, t, draws, k + 1)
                  IN  [rest EXCEPT !.rets = <<r.ret>> \o @]
             ELSE [pool |-> r.pool, timer |-> t, rets |-> <<r.ret>>]

\* The number of emit calls a frame of length dt asks for, by mode:
\* int(120 * dt) + 1 (fountain), the whole intervals of the rain timer,
\* int(80 * dt) + 1 (swirl); none unless the mode's condition holds.
FrameBurst(s, dt) ==
    IF s.mode = MODE_FOUNTAIN /\ s.touching THEN 12 * dt + 1
    ELSE IF s.mode = MODE_RAIN THEN (s.rain_timer + 100 * dt) \div RainInterval
    ELSE IF s.mode = MODE_SWIRL /\ s.touching THEN 8 * dt + 1
    ELSE 0

\* The number of emit calls an event asks for: the 150 of an explosion on a
\* press in the play area.
EventBurst(s, ev) ==
    IF s.mode = MODE_EXPLOSION /\ ev.type = MOUSEBUTTONDOWN /\ ev.pos[2] > TOOLBAR_H
    THEN 150 ELSE 0

\* _emit_fountain: int(120 * dt) + 1 particles
ParticlePlaygroundScreen_emit_fountain(s, dt, draws) ==
    [s EXCEPT !.pool = EmitLoop(@, 12 * dt + 1, draws, 1).pool]

\* _emit_rain
ParticlePlaygroundScreen_emit_rain(s, dt, draws) ==
    LET r == RainLoop(s.pool, s.rain_timer + 100 * dt, draws, 1)
    IN  [s EXCEPT !.pool = r.pool, !.rain_timer = r.timer]

\* _emit_swirl: int(80 * dt) + 1 particles
ParticlePlaygroundScreen_emit_swirl(s, dt, draws) ==
    [s EXCEPT !.pool = EmitLoop(@, 8 * dt + 1, draws, 1).pool]

\* _emit_explosion: 150 particles
ParticlePlaygroundScreen_emit_explosion(s, draws) ==
    [s EXCEPT !.pool = EmitLoop(@, 150, draws, 1).pool]

\* The screen as one record.
Screen ==
    [pool |-> Pool, mode |-> mode, palette |-> palette, hue |-> hue,
     touching |-> touching, touch_x |-> touch_x, touch_y |-> touch_y,
     back_rect |-> back_rect, rain_timer |-> rain_timer, toolbar |-> toolbar]

\* ParticlePlaygroundScreen.__init__
ParticlePlaygroundScreen_new ==
    [pool |-> ParticlePool_new,
     mode |-> MODE_FOUNTAIN,
     palette |-> PAL_RAINBOW,
     hue |-> 0,
     touching |-> FALSE,
     touch_x |-> WIDTH \div 2,
     touch_y |-> HEIGHT \div 2,
     back_rect |-> None,
     rain_timer |-> 0,
     toolbar |-> PlaygroundToolbar]

\* ParticlePlaygroundScreen.on_enter
ParticlePlaygroundScreen_on_enter(s) ==
    [s EXCEPT !.pool = ParticlePool_clear(@),
              !.hue = 0,
              !.touching = FALSE,
              !.rain_timer = 0]

\* ParticlePlaygroundScreen.handle_event: the screen after the event and what
\* the router did, if the event reached the back button.
ParticlePlaygroundScreen_handle_event(s, a, ev, draws) ==
    LET t == ScrollToolbar_handle_event(s.toolbar, ev)
        s1 == [s EXCEPT !.toolbar = t.toolbar]
        mx == ev.pos[1]
        my == ev.pos[2]
        idle == Result(a.screens, a.state, a.history, <<>>, NoError)
    IN  IF t.ret
        THEN LET idx == ScrollToolbar_get_btn_at(s1.toolbar, ev.pos)
             IN  [screen |-> IF ev.type = MOUSEBUTTONUP /\ idx >= 0
                             THEN [s1 EXCEPT !.mode = idx]
                             ELSE s1,
                  app |-> idle]
        ELSE IF ev.type = MOUSEBUTTONDOWN
        THEN IF s1.back_rect # None /\ Rect_collidepoint(s1.back_rect, mx, my)
             THEN [screen |-> s1, app |-> App_go_back(a)]
             ELSE LET idx == ScrollToolbar_get_btn_at(s1.toolbar, ev.pos)
                      pal == FirstRectAt(pal_rects, mx, my)
                      touched == [s1 EXCEPT !.touching = TRUE, !.touch_x = mx, !.touch_y = my]
                  IN  [screen |->
                          IF idx >= 0 THEN [s1 EXCEPT !.mode = idx]
                          ELSE IF pal >= 0 THEN [s1 EXCEPT !.palette = pal]
                          ELSE IF my > TOOLBAR_H
                          THEN IF s1.mode = MODE_EXPLOSION
                               THEN ParticlePlaygroundScreen_emit_explosion(touched, draws)
                               ELSE touched
                          ELSE s1,
                       app |-> idle]
        ELSE IF ev.type = MOUSEMOTION
        THEN [screen |-> IF s1.touching
                         THEN [s1 EXCEPT !.touch_x = mx, !.touch_y = Max(my, TOOLBAR_H)]
                         ELSE s1,
              app |-> idle]
        ELSE IF ev.type = MOUSEBUTTONUP
        THEN [screen |-> [s1 EXCEPT !.touching = FALSE], app |-> idle]
        ELSE [screen |-> s1, app |-> idle]

\* ParticlePlaygroundScreen.update: dt * 90 degrees is 9 degrees per tenth of
\* a second.
ParticlePlaygroundScreen_update(s, dt, draws) ==
    LET s1 == [s EXCEPT !.hue = (@ + 9 * dt) % 360]
        s2 == IF s1.mode = MODE_FOUNTAIN /\ s1.touching
              THEN ParticlePlaygroundScreen_emit_fountain(s1, dt, draws)
              ELSE IF s1.mode = MODE_RAIN
              THEN ParticlePlaygroundScreen_emit_rain(s1, dt, draws)
              ELSE IF s1.mode = MODE_SWIRL /\ s1.touching
              THEN ParticlePlaygroundScreen_emit_swirl(s1, dt, draws)
              ELSE s1
    IN  [s2 EXCEPT !.toolbar = ScrollToolbar_update(@, dt),
                   !.pool = ParticlePool_update(@, dt).pool]

\* ParticlePlaygroundScreen.draw: the only field written is back_rect.
ParticlePlaygroundScreen_draw(s) == [s EXCEPT !.back_rect = draw_back_button]

\* ---------------------------------------------------------------------------
\* ParticlePool with its kinematic arrays x, y, vx, vy and its colour arrays
\* r, g, b (the variable body; rgb is the triple of the three colour arrays).
\* Positions and velocities are Python floats; the model keeps them in
\* thousandths of a pixel (per second) and rounds a product to the nearest
\* thousandth, as it does for the toolbar.  dt is in tenths of a second and
\* gravity in pixels per second squared.
\* ---------------------------------------------------------------------------

\* n pixels, in thousandths
Px(n) == n * Milli

\* v * dt for v in thousandths and dt in tenths of a second
TimesDt(v, dt) == RoundDiv(v * dt, 10)

\* BOUNCE_DAMPING = 0.6, in tenths
BOUNCE_DAMPING == 6

\* -v * damp
Rebound(v) == RoundDiv(-v * BOUNCE_DAMPING, 10)

\* The kinematic arrays after ParticlePool.__init__
Body_new ==
    [x |-> [i \in Slots |-> 0], y |-> [i \in Slots |-> 0],
     vx |-> [i \in Slots |-> 0], vy |-> [i \in Slots |-> 0],
     rgb |-> [i \in Slots |-> <<255, 255, 255>>]]

\* The pool with all its arrays as one record; origin is a history field:
\* the slot the particle in the slot occupied when update was called.
Motion ==
    [count |-> count, life |-> life, max_life |-> max_life, size |-> size,
     x |-> body.x, y |-> body.y, vx |-> body.vx, vy |-> body.vy,
     rgb |-> body.rgb,
     origin |-> [i \in Slots |-> i]]

\* x, y, vx, vy of slot i
BodyOf(k, i) == [x |-> k.x[i], y |-> k.y[i], vx |-> k.vx[i], vy |-> k.vy[i]]

\* ParticlePool.emit, the kinematic arrays: written when the call finds a
\* free slot.
Body_emit(b, w, px, py, pvx, pvy, prgb) ==
    LET i == w.count
    IN  IF PoolFull(i) \/ i \notin Slots
        THEN b
        ELSE [x |-> [b.x EXCEPT ![i] = px], y |-> [b.y EXCEPT ![i] = py],
              vx |-> [b.vx EXCEPT ![i] = pvx], vy |-> [b.vy EXCEPT ![i] = pvy],
              rgb |-> [b.rgb EXCEPT ![i] = prgb]]

\* Mutant of Integrate: the position is advanced with the old velocity, the
\* velocity afterwards (explicit Euler).
Integrate_position_first(p, dt, gravity) ==
    [x |-> p.x + TimesDt(p.vx, dt),
     y |-> p.y + TimesDt(p.vy, dt),
     vx |-> p.vx,
     vy |-> p.vy + TimesDt(Px(gravity), dt)]

\* `vy[i] += grav_dt; x[i] += vx[i] * dt; y[i] += vy[i] * dt`
Integrate(p, dt, gravity) ==
    LET grav_dt == TimesDt(Px(gravity), dt)
        vy1 == p.vy + grav_dt
    IN  [x |-> p.x + TimesDt(p.vx, dt),
         y |-> p.y + TimesDt(vy1, dt),
         vx |-> p.vx,
         vy |-> vy1]

\* Mutant of Bounce: a particle beyond a wall is mirrored at the wall instead
\* of being put on it.
Bounce_mirrors(p) ==
    LET w == Px(WIDTH - 1)
        h == Px(HEIGHT - 1)
        p1 == IF p.x < 0 THEN [p EXCEPT !.x = -p.x, !.vx = Rebound(p.vx)]
              ELSE IF p.x > w THEN [p EXCEPT !.x = 2 * w - p.x, !.vx = Rebound(p.vx)]
              ELSE p
    IN  IF p.y > h THEN [p1 EXCEPT !.y = 2 * h - p.y, !.vy = Rebound(p.vy)]
        ELSE IF p.y < Px(TOOLBAR_H)
        THEN [p1 EXCEPT !.y = 2 * Px(TOOLBAR_H) - p.y, !.vy = Rebound(p.vy)]
        ELSE p1

\* Mutant of Bounce: a rebound damps the tangential component too.
Bounce_damps_tangent(p) ==
    LET w == Px(WIDTH - 1)
        h == Px(HEIGHT - 1)
        hitx == p.x < 0 \/ p.x > w
        hity == p.y > h \/ p.y < Px(TOOLBAR_H)
    IN  [x |-> IF p.x < 0 THEN 0 ELSE IF p.x > w THEN w ELSE p.x,
         y |-> IF p.y > h THEN h ELSE IF p.y < Px(TOOLBAR_H) THEN Px(TOOLBAR_H) ELSE p.y,
         vx |-> IF hitx THEN Rebound(p.vx)
                ELSE IF hity THEN RoundDiv(p.vx * BOUNCE_DAMPING, 10) ELSE p.vx,
         vy |-> IF hity THEN Rebound(p.vy)
                ELSE IF hitx THEN RoundDiv(p.vy * BOUNCE_DAMPING, 10) ELSE p.vy]

\* "Bounce off walls": the if / elif on x, then the if / elif on y.
Bounce(p) ==
    LET w == Px(WIDTH - 1)
        h == Px(HEIGHT - 1)
        p1 == IF p.x < 0 THEN [p EXCEPT !.x = 0, !.vx = Rebound(p.vx)]
              ELSE IF p.x > w THEN [p EXCEPT !.x = w, !.vx = Rebound(p.vx)]
              ELSE p
    IN  IF p.y > h THEN [p1 EXCEPT !.y = h, !.vy = Rebound(p.vy)]
        ELSE IF p.y < Px(TOOLBAR_H) THEN [p1 EXCEPT !.y = Px(TOOLBAR_H), !.vy = Rebound(p.vy)]
        ELSE p1

\* Mutant of SwapRemove: the colour and the size of the last particle are
\* not copied, so the particle moved into slot i takes those of the dead one.
SwapRemove_position_only(k, i, m) ==
    [k EXCEPT !.x[i] = k.x[m], !.y[i] = k.y[m],
              !.vx[i] = k.vx[m], !.vy[i] = k.vy[m],
              !.life[i] = k.life[m],
              !.max_life[i] = k.max_life[m],
              !.origin[i] = k.origin[m]]

\* "Swap-remove": every array's slot i takes the value of slot m, the last
\* live slot (n after `n -= 1`).
SwapRemove(k, i, m) ==
    [k EXCEPT !.x[i] = k.x[m], !.y[i] = k.y[m],
              !.vx[i] = k.vx[m], !.vy[i] = k.vy[m],
              !.rgb[i] = k.rgb[m],
              !.life[i] = k.life[m],
              !.max_life[i] = k.max_life[m],
              !.size[i] = k.size[m],
              !.origin[i] = k.origin[m]]

\* The while loop of ParticlePool.update with every array: k is the pool, i
\* the loop index, n the local live count.
RECURSIVE MotionLoop(_, _, _, _, _)
MotionLoop(k, i, n, dt, gravity) ==
    IF ~(i < n)
    THEN [k EXCEPT !.count = n]
    ELSE LET d == FSub(k.life[i], dt)
             k1 == [k EXCEPT !.life[i] = d]
         IN  IF IsDead(d)
             THEN MotionLoop(SwapRemove(k1, i, n - 1), AfterRemove(i), n - 1, dt, gravity)
             ELSE LET p == Bounce(Integrate(BodyOf(k1, i), dt, gravity))
                      k2 == [k1 EXCEPT !.x[i] = p.x, !.y[i] = p.y,
                                       !.vx[i] = p.vx, !.vy[i] = p.vy]
                  IN  MotionLoop(k2, i + 1, n, dt, gravity)

\* ParticlePool.update(dt, gravity) with every array
ParticlePool_update_motion(k, dt, gravity) == MotionLoop(k, 0, k.count, dt, gravity)

\* ---------------------------------------------------------------------------
\* ShapeSorterScreen (src/screens/shape_sorter.py).  Positions are whole
\* pixels (event positions, the random start positions and the targets are
\* integers); times are milliseconds, but for celebrate_timer, a float like
\* the life of a particle, in eighths of a second (2.5 is a float).  The model
\* keeps the remaining life of each snap particle and the number of confetti
\* pieces; their positions, velocities and colours only reach the display.
\* Two history fields follow the celebration: elapsed, the exact sum of the
\* dt of its updates (milliseconds, no further than 2.5 s), and exact, telling
\* that no subtraction from celebrate_timer was rounded.
\* ---------------------------------------------------------------------------

\* The names of SHAPE_DEFS; the model plays with the first ShapeCount.
SHAPE_NAMES == <<"circle", "square", "triangle", "star", "hexagon">>
SHAPE_DEFS == SubSeq(SHAPE_NAMES, 1, ShapeCount)
SHAPE_SIZE == 70
SNAP_DIST == 55

\* dt (milliseconds, a multiple of 125) in eighths of a second
Eighths(dt) == dt \div 125

\* `self.celebrate_timer = 2.5`, in eighths of a second
CELEBRATE_TIME == 20

\* math.hypot(dx, dy) compared with a whole number d: for integers dx, dy
\* the comparison is the one of the squares.
HypotLess(dx, dy, d) == dx * dx + dy * dy < d * d
HypotAtMost(dx, dy, d) == dx * dx + dy * dy <= d * d

\* _point_in_shape: a circle of radius size + 10 whatever the shape.
point_in_shape(name, px, py, cx, cy, shape_size) ==
    HypotAtMost(px - cx, py - cy, shape_size + 10)

\* Shape.__init__
Shape_new(name, start_x, start_y, target_x, target_y) ==
    [name |-> name, start_x |-> start_x, start_y |-> start_y,
     x |-> start_x, y |-> start_y,
     target_x |-> target_x, target_y |-> target_y,
     placed |-> FALSE, dragging |-> FALSE,
     snap_anim |-> 0, snapping |-> FALSE]

\* A reference to the Shape object of that name (names are unique in shapes).
Ref(name) == [name |-> name]

\* The index in shapes of the referenced Shape.
IndexOf(shapes, ref) == CHOOSE i \in 1..Len(shapes) : shapes[i].name = ref.name

\* ShapeSorterScreen.__init__
ShapeSorterScreen_new ==
    [shapes |-> <<>>, particles |-> <<>>, confetti |-> 0,
     dragged_shape |-> None, drag_offset |-> <<0, 0>>,
     celebrating |-> FALSE, celebrate_timer |-> 0, back_rect |-> None,
     elapsed |-> 0, exact |-> TRUE]

\* The screen object of the current state.
Sorter == sorter

\* ShapeSorterScreen._build_shapes; starts[i] is the i-th random start
\* position.  drag_offset and back_rect are not touched; the history fields
\* start again.
ShapeSorterScreen_build_shapes(s, starts) ==
    LET num == Len(SHAPE_DEFS)
        spacing == WIDTH \div (num + 1)
        target_y == HEIGHT - 150
    IN  [s EXCEPT !.shapes = [i \in 1..num |->
                                 Shape_new(SHAPE_DEFS[i], starts[i][1], starts[i][2],
                                           spacing * i, target_y)],
                  !.particles = <<>>,
                  !.confetti = 0,
                  !.celebrating = FALSE,
                  !.celebrate_timer = 0,
                  !.elapsed = 0,
                  !.exact = TRUE,
                  !.dragged_shape = None]

\* ShapeSorterScreen.on_enter
ShapeSorterScreen_on_enter(s, starts) == ShapeSorterScreen_build_shapes(s, starts)

\* Mutant of PickUp: a placed shape under the pointer is picked up too.
RECURSIVE PickUp_placed_too(_, _, _, _)
PickUp_placed_too(shapes, i, mx, my) ==
    IF i = 0 THEN 0
    ELSE IF point_in_shape(shapes[i].name, mx, my, shapes[i].x, shapes[i].y, SHAPE_SIZE)
    THEN i
    ELSE PickUp_placed_too(shapes, i - 1, mx, my)

\* `for shape in reversed(self.shapes)`: the index of the top-most shape that
\* is not placed and contains the point, 0 when there is none.
RECURSIVE PickUp(_, _, _, _)
PickUp(shapes, i, mx, my) ==
    IF i = 0 THEN 0
    ELSE IF ~shapes[i].placed
            /\ point_in_shape(shapes[i].name, mx, my, shapes[i].x, shapes[i].y, SHAPE_SIZE)
    THEN i
    ELSE PickUp(shapes, i - 1, mx, my)

\* Mutant of MoveToEnd: the shape picked up stays where it is in the list.
MoveToEnd_stays(shapes, i) == shapes

\* shapes.remove(shape); shapes.append(shape)
MoveToEnd(shapes, i) ==
    SubSeq(shapes, 1, i - 1) \o SubSeq(shapes, i + 1, Len(shapes)) \o <<shapes[i]>>

\* all(s.placed for s in self.shapes)
AllPlaced(shapes) == \A i \in 1..Len(shapes) : shapes[i].placed

\* n new SnapParticle objects of the given life
SnapParticles(n, plife) == [k \in 1..n |-> plife]

\* The body of `if dist < SNAP_DIST` for the shape at index i: it snaps onto
\* its target, emits 12 particles, and the last shape to snap starts the
\* celebration.
Snap(s, i, plife) ==
    LET snapped == [s.shapes[i] EXCEPT !.x = s.shapes[i].target_x,
                                       !.y = s.shapes[i].target_y,
                                       !.placed = TRUE,
                                       !.snapping = TRUE,
                                       !.snap_anim = 0]
        s2 == [s EXCEPT !.shapes[i] = snapped,
                        !.particles = @ \o SnapParticles(12, plife)]
    IN  IF AllPlaced(s2.shapes)
        THEN [s2 EXCEPT !.celebrating = TRUE,
                        !.celebrate_timer = CELEBRATE_TIME,
                        !.confetti = @ + 80]
        ELSE s2

\* Mutant of Release: the snap test accepts the threshold distance itself.
Release_inclusive(s, plife) ==
    LET i == IndexOf(s.shapes, s.dragged_shape)
        s1 == [s EXCEPT !.shapes[i].dragging = FALSE, !.dragged_shape = None]
        shape == s1.shapes[i]
    IN  IF HypotAtMost(shape.x - shape.target_x, shape.y - shape.target_y, SNAP_DIST)
        THEN Snap(s1, i, plife)
        ELSE s1

\* Mutant of Release: a shape released away from its target goes back to
\* where it started.
Release_returns_to_start(s, plife) ==
    LET i == IndexOf(s.shapes, s.dragged_shape)
        s1 == [s EXCEPT !.shapes[i].dragging = FALSE, !.dragged_shape = None]
        shape == s1.shapes[i]
    IN  IF HypotLess(shape.x - shape.target_x, shape.y - shape.target_y, SNAP_DIST)
        THEN Snap(s1, i, plife)
        ELSE [s1 EXCEPT !.shapes[i].x = shape.start_x, !.shapes[i].y = shape.start_y]

\* The MOUSEBUTTONUP branch of handle_event with a shape being dragged: the
\* shape is let go, and snaps when it is closer to its target than SNAP_DIST.
Release(s, plife) ==
    LET i == IndexOf(s.shapes, s.dragged_shape)
        s1 == [s EXCEPT !.shapes[i].dragging = FALSE, !.dragged_shape = None]
        shape == s1.shapes[i]
    IN  IF HypotLess(shape.x - shape.target_x, shape.y - shape.target_y, SNAP_DIST)
        THEN Snap(s1, i, plife)
        ELSE s1

\* Mutant of IgnoresEvents: the events are handled during the celebration
\* as well.
IgnoresEvents_never(s) == FALSE

\* `if self.celebrating: return`, the first statement of handle_event
IgnoresEvents(s) == s.celebrating

\* ShapeSorterScreen.handle_event: the screen after the event and what the
\* router did, if the event reached the back button.  plife is the life
\* drawn for the snap particles.
ShapeSorterScreen_handle_event(s, a, ev, plife) ==
    LET mx == ev.pos[1]
        my == ev.pos[2]
        idle == Result(a.screens, a.state, a.history, <<>>, NoError)
    IN  IF IgnoresEvents(s)
        THEN [screen |-> s, app |-> idle]
        ELSE IF ev.type = MOUSEBUTTONDOWN /\ ev.button = 1
        THEN IF s.back_rect # None /\ Rect_collidepoint(s.back_rect, mx, my)
             THEN [screen |-> s, app |-> App_go_back(a)]
             ELSE LET i == PickUp(s.shapes, Len(s.shapes), mx, my)
                  IN  [screen |->
                          IF i = 0 THEN s
                          ELSE LET shape == [s.shapes[i] EXCEPT !.dragging = TRUE]
                               IN  [s EXCEPT !.dragged_shape = Ref(shape.name),
                                             !.drag_offset = <<shape.x - mx, shape.y - my>>,
                                             !.shapes = MoveToEnd([s.shapes EXCEPT ![i] = shape], i)],
                       app |-> idle]
        ELSE IF ev.type = MOUSEMOTION
        THEN [screen |->
                 IF s.dragged_shape # None
                 THEN LET i == IndexOf(s.shapes, s.dragged_shape)
                      IN  [s EXCEPT !.shapes[i].x = mx + s.drag_offset[1],
                                    !.shapes[i].y = my + s.drag_offset[2]]
                 ELSE s,
              app |-> idle]
        ELSE IF ev.type = MOUSEBUTTONUP /\ ev.button = 1
        THEN [screen |-> IF s.dragged_shape # None THEN Release(s, plife) ELSE s,
              app |-> idle]
        ELSE [screen |-> s, app |-> idle]

\* The snap animation of one shape after dt: it stops at 0.3 s.
Shape_animate(shape, dt) ==
    IF shape.snapping
    THEN IF shape.snap_anim + dt >= 300
         THEN [shape EXCEPT !.snap_anim = 300, !.snapping = FALSE]
         ELSE [shape EXCEPT !.snap_anim = @ + dt]
    ELSE shape

\* `for p in particles: p.update(dt)` and the filter `p.life > 0`
RECURSIVE ParticlesAfter(_, _)
ParticlesAfter(ps, dt) ==
    IF ps = <<>> THEN <<>>
    ELSE (IF Head(ps) - dt > 0 THEN <<Head(ps) - dt>> ELSE <<>>)
         \o ParticlesAfter(Tail(ps), dt)

\* Mutant of TimerOut: the timer has to go below zero.
TimerOut_strict(t) == t < 0

\* `if self.celebrate_timer <= 0`
TimerOut(t) == t <= 0

\* ShapeSorterScreen.update; starts are the start positions drawn when the
\* celebration ends and the shapes are built again.
ShapeSorterScreen_update(s, dt, starts) ==
    LET s1 == [s EXCEPT !.shapes = [i \in 1..Len(s.shapes) |-> Shape_animate(s.shapes[i], dt)],
                        !.particles = ParticlesAfter(s.particles, dt)]
    IN  IF s1.celebrating
        THEN LET t == FSub(s1.celebrate_timer, Eighths(dt))
                 s2 == [s1 EXCEPT !.celebrate_timer = t,
                                  !.elapsed = Min(@ + dt, 125 * CELEBRATE_TIME),
                                  !.exact = @ /\ (t = s1.celebrate_timer - Eighths(dt))]
             IN  IF TimerOut(s2.celebrate_timer)
                 THEN ShapeSorterScreen_build_shapes(s2, starts)
                 ELSE s2
        ELSE s1

\* ShapeSorterScreen.draw: what it leaves in the object is back_rect.
ShapeSorterScreen_draw(s) == [s EXCEPT !.back_rect = draw_back_button]

\* ---------------------------------------------------------------------------
\* WeatherToyScreen (src/screens/weather_toy.py).  The model keeps scene, the
\* toolbar, back_rect, _tap_point and _tap_age (tenths of a second); time,
\* the particles, splashes, ripples and stars of the scenes only reach the
\* display.
\* ---------------------------------------------------------------------------

SCENE_SNOW == 0

\* len(SCENE_NAMES)
SceneCount == 5

\* The scene strip of the weather toy.
WeatherToolbar == ScrollToolbar_new(110, 10, 58, 140, 6, SceneCount)

\* WeatherToyScreen.__init__
WeatherToyScreen_new ==
    [scene |-> SCENE_SNOW, toolbar |-> WeatherToolbar, back_rect |-> None,
     tap_point |-> None, tap_age |-> 0]

\* The screen object of the current state.
Weather == weather

\* WeatherToyScreen._switch_scene
WeatherToyScreen_switch_scene(s, scene) ==
    [s EXCEPT !.scene = scene, !.tap_point = None, !.tap_age = 0]

\* WeatherToyScreen.on_enter
WeatherToyScreen_on_enter(s) == WeatherToyScreen_switch_scene(s, SCENE_SNOW)

\* WeatherToyScreen.handle_event: the screen after the event and what the
\* router did, if the event reached the back button.
WeatherToyScreen_handle_event(s, a, ev) ==
    LET t == ScrollToolbar_handle_event(s.toolbar, ev)
        s1 == [s EXCEPT !.toolbar = t.toolbar]
        idle == Result(a.screens, a.state, a.history, <<>>, NoError)
        idx == ScrollToolbar_get_btn_at(s1.toolbar, ev.pos)
    IN  IF t.ret
        THEN [screen |-> IF ev.type = MOUSEBUTTONUP /\ idx >= 0 /\ idx # s1.scene
                         THEN WeatherToyScreen_switch_scene(s1, idx)
                         ELSE s1,
              app |-> idle]
        ELSE IF ev.type = MOUSEBUTTONDOWN
        THEN IF s1.back_rect # None /\ Rect_collidepoint(s1.back_rect, ev.pos[1], ev.pos[2])
             THEN [screen |-> s1, app |-> App_go_back(a)]
             ELSE [screen |->
                      IF idx >= 0
                      THEN IF idx # s1.scene
                           THEN WeatherToyScreen_switch_scene(s1, idx)
                           ELSE s1
                      ELSE [s1 EXCEPT !.tap_point = [x |-> ev.pos[1], y |-> ev.pos[2]],
                                      !.tap_age = 0],
                   app |-> idle]
        ELSE [screen |-> s1, app |-> idle]

\* WeatherToyScreen.update: the tap marker expires after 0.5 s.
WeatherToyScreen_update(s, dt) ==
    LET s1 == [s EXCEPT !.toolbar = ScrollToolbar_update(@, dt)]
    IN  IF s1.tap_point # None
        THEN IF s1.tap_age + dt > 5
             THEN [s1 EXCEPT !.tap_age = @ + dt, !.tap_point = None]
             ELSE [s1 EXCEPT !.tap_age = @ + dt]
        ELSE s1

\* WeatherToyScreen.draw: what it leaves in the object is back_rect.
WeatherToyScreen_draw(s) == [s EXCEPT !.back_rect = draw_back_button]

\* ---------------------------------------------------------------------------
\* The bubble games: BubblePopScreen (src/screens/bubble_pop.py) and the
\* stand-alone AvaGameBox (src/ava_games.py).  The model keeps the bubbles
\* (centre and radius), back_rect (screen) or state (box), and where the
\* program is in spawn_bubble: one step of the model is one iteration of its
\* sampling loop.  time, clouds, particles and floating texts only reach the
\* display; the bobbing of a bubble, a function of time, is drawn from its
\* range.
\* ---------------------------------------------------------------------------

\* `for _ in range(50)` of spawn_bubble
ATTEMPTS == 50

\* What differs between the two programs: the margin kept to the border, the
\* buffer kept between bubbles and the largest radius.
Margin(kind) == IF kind = "BubblePopScreen" THEN 10 ELSE 0
Buffer(kind) == IF kind = "BubblePopScreen" THEN 5 ELSE 0
MaxRadius(kind) == IF kind = "BubblePopScreen" THEN 65 ELSE 60

\* AvaGameBox.btn_rect; src/ava_games.py sets WIDTH, HEIGHT = 720, 720, the
\* values of src/config.py.
btn_rect == Rect(WIDTH \div 4, HEIGHT \div 2 + 100, WIDTH \div 2, 100)

\* BubblePopScreen.__init__ / AvaGameBox.__init__; pc is "idle" between
\* handlers, "call" at the entry of spawn_bubble, "loop" inside its sampling
\* loop and "exit" after sys.exit(); pending counts the spawn_bubble calls the running
\* handler still has to make, the running one included.
Game_new(kind) ==
    [kind |-> kind,
     state |-> IF kind = "AvaGameBox" THEN "SPLASH" ELSE "-",
     bubbles |-> <<>>,
     back_rect |-> None,
     pc |-> "idle", pending |-> 0, radius |-> 0, attempt |-> 0,
     log |-> [op |-> "init", attempts |-> 0, before |-> 0, pos |-> <<0, 0>>, fits |-> TRUE]]

\* The game object of the current state.
Game == bubble

\* Mutant of Overlaps: a candidate at exactly the two radii plus the buffer
\* from a bubble overlaps it too.
Overlaps_inclusive(p, r, b, buffer) ==
    HypotAtMost(p[1] - b.pos[1], p[2] - b.pos[2], r + b.radius + buffer)

\* The candidate (x, y) of radius r is closer to bubble b than the two radii
\* plus the buffer: `((x - bx)**2 + (y - by)**2) ** 0.5 < radius + b["radius"]
\* + buffer`, on integers the comparison of the squares.
Overlaps(p, r, b, buffer) ==
    HypotLess(p[1] - b.pos[1], p[2] - b.pos[2], r + b.radius + buffer)

\* `not any(... for b in self.bubbles)`
Fits(g, p) ==
    \A i \in 1..Len(g.bubbles) : ~Overlaps(p, g.radius, g.bubbles[i], Buffer(g.kind))

\* random.randint(radius + margin, WIDTH - radius - margin), both ends
\* included, and the same for y.
InSampleRange(g, p) ==
    /\ g.radius + Margin(g.kind) <= p[1] /\ p[1] <= WIDTH - g.radius - Margin(g.kind)
    /\ g.radius + Margin(g.kind) <= p[2] /\ p[2] <= HEIGHT - g.radius - Margin(g.kind)

\* n calls of spawn_bubble are about to be made.
Spawn_call(g, n) == [g EXCEPT !.pc = "call", !.pending = n]

\* The first line of spawn_bubble: the radius is drawn and the loop entered.
Spawn_begin(g, radius) ==
    [g EXCEPT !.pc = "loop", !.radius = radius, !.attempt = 0,
              !.log = [op |-> "radius", attempts |-> 0, before |-> Len(g.bubbles),
                       pos |-> <<0, 0>>, fits |-> TRUE]]

\* Mutant of LoopEnds: the loop goes on until a candidate fits.
LoopEnds_when_fits(g, p) == Fits(g, p)

\* The iteration that drew p is the last one: `break`, or range(50) is
\* exhausted.
LoopEnds(g, p) == Fits(g, p) \/ g.attempt + 1 = ATTEMPTS

\* One iteration of the loop of spawn_bubble, drawing p; after the last one
\* the bubble is appended at p and the call returns to the handler, which
\* makes its next call if it has one.
Spawn_iterate(g, p) ==
    IF LoopEnds(g, p)
    THEN LET done == [g EXCEPT !.bubbles = Append(@, [pos |-> p, radius |-> g.radius]),
                               !.log = [op |-> "spawn", attempts |-> g.attempt + 1,
                                        before |-> Len(g.bubbles), pos |-> p,
                                        fits |-> Fits(g, p)]]
         IN  IF g.pending > 1
             THEN Spawn_call(done, g.pending - 1)
             ELSE [done EXCEPT !.pc = "idle", !.pending = 0]
    ELSE [g EXCEPT !.attempt = @ + 1,
                   !.log = [op |-> "sample", attempts |-> g.attempt + 1,
                            before |-> Len(g.bubbles), pos |-> p, fits |-> FALSE]]

\* The history field after a handler that is not spawn_bubble.
GameLog(op) == [op |-> op, attempts |-> 0, before |-> 0, pos |-> <<0, 0>>, fits |-> TRUE]

\* BubblePopScreen.on_enter: no bubbles, then 12 calls of spawn_bubble (the
\* model makes SpawnBatch of them).
BubblePopScreen_on_enter(g) ==
    Spawn_call([g EXCEPT !.bubbles = <<>>, !.log = GameLog("on_enter")], SpawnBatch)

\* The index of the first bubble of the list the point is inside of, the
\* bubble i being drawn bob[i] pixels below its position; 0 when none.
FirstHit(g, pos, bob) ==
    LET hits == {i \in 1..Len(g.bubbles) :
                    HypotLess(pos[1] - g.bubbles[i].pos[1],
                              pos[2] - (g.bubbles[i].pos[2] + bob[i]),
                              g.bubbles[i].radius)}
    IN  IF hits = {} THEN 0 ELSE CHOOSE i \in hits : \A j \in hits : i <= j

\* self.bubbles.pop(i)
ListRemove(l, i) == SubSeq(l, 1, i - 1) \o SubSeq(l, i + 1, Len(l))

\* BubblePopScreen.handle_event: the screen after the event, up to the call
\* of spawn_bubble, and what the router did on the back button.
BubblePopScreen_handle_event(g, a, ev, bob) ==
    LET idle == Result(a.screens, a.state, a.history, <<>>, NoError)
        g1 == [g EXCEPT !.log = GameLog("handle_event")]
    IN  IF ev.type = MOUSEBUTTONDOWN
        THEN IF g.back_rect # None /\ Rect_collidepoint(g.back_rect, ev.pos[1], ev.pos[2])
             THEN [screen |-> g1, app |-> App_go_back(a)]
             ELSE LET i == FirstHit(g, ev.pos, bob)
                  IN  [screen |-> IF i = 0 THEN g1
                                  ELSE Spawn_call([g1 EXCEPT !.bubbles = ListRemove(@, i)], 1),
                       app |-> idle]
        ELSE [screen |-> g1, app |-> idle]

\* BubblePopScreen.update: time, clouds, particles and texts only.
BubblePopScreen_update(g) == [g EXCEPT !.log = GameLog("update")]

\* BubblePopScreen.draw: what it leaves in the object is back_rect.
BubblePopScreen_draw(g) == [g EXCEPT !.back_rect = draw_back_button, !.log = GameLog("draw")]

\* AvaGameBox.run, one event: QUIT ends the program; a press on the button of
\* the splash screen starts the game with 10 calls of spawn_bubble (the
\* model makes SpawnBatch of them); a press on a bubble pops it and spawns
\* another.
AvaGameBox_event(g, ev) ==
    LET g1 == [g EXCEPT !.log = GameLog("event")]
        none == [i \in 1..Len(g.bubbles) |-> 0]
    IN  IF ev.type = "QUIT"
        THEN [g1 EXCEPT !.pc = "exit"]
        ELSE IF ev.type = MOUSEBUTTONDOWN
        THEN IF g.state = "SPLASH"
             THEN IF Rect_collidepoint(btn_rect, ev.pos[1], ev.pos[2])
                  THEN Spawn_call([g1 EXCEPT !.state = "BUBBLES"], SpawnBatch)
                  ELSE g1
             ELSE LET i == FirstHit(g, ev.pos, none)
                  IN  IF i = 0 THEN g1
                      ELSE Spawn_call([g1 EXCEPT !.bubbles = ListRemove(@, i)], 1)
        ELSE g1

\* ---------------------------------------------------------------------------
\* The Roku helper (src/roku.py), PressTracker (src/ui.py), RemoteScreen
\* (src/screens/remote.py) and ShowsScreen (src/screens/shows.py).  A thread
\* started by the helper is a record of the list roku.threads until it ends;
\* its steps are steps of the model of their own, taken at any time.  Times
\* are in hundredths of a second, positions in whole pixels.
\* ---------------------------------------------------------------------------

\* What urllib.request.urlopen(req, timeout=3) can do: answer, or raise
\* (socket.timeout, URLError on a refused connection, any other Exception).
Outcomes == {"ok", "timeout", "refused", "error"}

\* roku as imported with ENABLED = enabled; log is history: the last call or
\* thread step, the number of threads the call started, the number of
\* requests the step made, what the request did and what was raised.
\* `except Exception` catches what urlopen raises.
Caught(outcome) == outcome \in {"timeout", "refused", "error"}
RokuLog(op, started, requests, outcome) ==
    [op |-> op, started |-> started, requests |-> requests, outcome |-> outcome,
     raised |-> IF outcome \in {"-", "ok"} \/ Caught(outcome) THEN NoError ELSE outcome]
roku_new(enabled) ==
    [ENABLED |-> enabled, threads |-> <<>>, log |-> RokuLog("import", 0, 0, "-")]

\* The module of the current state.
Roku == roku

\* The URLs the helper builds: f"http://{ROKU_IP}:{ROKU_PORT}/keypress/{key}"
\* and f"http://{ROKU_IP}:{ROKU_PORT}/launch/{channel_id}", the latter with
\* f"?ContentID={content_id}&MediaType={media_type}" when content_id is not
\* empty.
KeypressUrl(key) == [path |-> "keypress", key |-> key, channel |-> 0, query |-> <<>>]
LaunchUrl(channel_id, content_id, media_type) ==
    [path |-> "launch", key |-> "", channel |-> channel_id,
     query |-> IF content_id # "" THEN <<content_id, media_type>> ELSE <<>>]

\* threading.Thread(target=_post, args=(url,), daemon=True).start()
Thread_start(rk, url) ==
    [rk EXCEPT !.threads = Append(@, [url |-> url, stage |-> "started", attempts |-> 0])]

\* Mutant of roku_send_keypress: ENABLED is not looked at.
roku_send_keypress_unguarded(rk, key) ==
    [Thread_start(rk, KeypressUrl(key)) EXCEPT !.log = RokuLog("send_keypress", 1, 0, "-")]

\* roku.send_keypress(key)
roku_send_keypress(rk, key) ==
    IF ~rk.ENABLED
    THEN [rk EXCEPT !.log = RokuLog("send_keypress", 0, 0, "-")]
    ELSE [Thread_start(rk, KeypressUrl(key)) EXCEPT !.log = RokuLog("send_keypress", 1, 0, "-")]

\* roku.launch_show(channel_id, content_id, media_type)
roku_launch_show(rk, channel_id, content_id, media_type) ==
    IF ~rk.ENABLED
    THEN [rk EXCEPT !.log = RokuLog("launch_show", 0, 0, "-")]
    ELSE [Thread_start(rk, LaunchUrl(channel_id, content_id, media_type))
             EXCEPT !.log = RokuLog("launch_show", 1, 0, "-")]

\* _post(url) in thread i, up to the call of urlopen: with ENABLED false the
\* thread ends at once.
roku_post_begin(rk, i) ==
    IF ~rk.ENABLED
    THEN [rk EXCEPT !.threads = ListRemove(@, i), !.log = RokuLog("_post", 0, 0, "-")]
    ELSE [rk EXCEPT !.threads[i].stage = "request", !.threads[i].attempts = @ + 1,
                    !.log = RokuLog("urlopen", 0, 1, "-")]

\* Mutant of roku_post_end: a request that failed is made again.
roku_post_end_retrying(rk, i, outcome) ==
    IF outcome = "ok"
    THEN [rk EXCEPT !.threads = ListRemove(@, i),
                    !.log = RokuLog("_post", 0, rk.threads[i].attempts, outcome)]
    ELSE [rk EXCEPT !.threads[i].attempts = @ + 1, !.log = RokuLog("urlopen", 0, 1, outcome)]

\* _post(url) in thread i, from the return of urlopen: `except Exception:
\* pass`, and the thread ends.
roku_post_end(rk, i, outcome) ==
    [rk EXCEPT !.threads = ListRemove(@, i),
               !.log = RokuLog("_post", 0, rk.threads[i].attempts, outcome)]

\* PressTracker.__init__
PressTracker_new(n) == [press_timers |-> [i \in 1..n |-> 0], pressed |-> [i \in 1..n |-> FALSE]]

\* PressTracker.trigger, index counted from 0; 0.15 s
PressTracker_trigger(p, index) ==
    [p EXCEPT !.press_timers[index + 1] = 15, !.pressed[index + 1] = TRUE]

\* PressTracker.update
PressTracker_update(p, dt) ==
    LET n == Len(p.press_timers)
        running(i) == p.press_timers[i] > 0
        over(i) == running(i) /\ p.press_timers[i] - dt <= 0
    IN  [press_timers |-> [i \in 1..n |-> IF ~running(i) THEN p.press_timers[i]
                                          ELSE IF over(i) THEN 0
                                          ELSE p.press_timers[i] - dt],
         pressed |-> [i \in 1..n |-> IF over(i) THEN FALSE ELSE p.pressed[i]]]

\* The buttons of RemoteScreen.__init__: rect and roku_key.
RemoteButtons ==
    LET cx == WIDTH \div 2
        cy == 320
        bw == 100
        bh == 80
        gap == 8
        bottom_y == cy + bh + gap + bh + 50
        btn_w == 140
        btn_h == 70
        total_w == 3 * btn_w + 2 * 20
        start_x == (WIDTH - total_w) \div 2
        btn(rect, key) == [rect |-> rect, roku_key |-> key]
    IN  <<btn(Rect(cx - bw \div 2, cy - bh - gap - bh, bw, bh), "Up"),
          btn(Rect(cx - bw - gap - bw \div 2, cy - bh \div 2, bw, bh), "Left"),
          btn(Rect(cx - 60, cy - bh \div 2, 120, bh), "Select"),
          btn(Rect(cx + gap + bw \div 2, cy - bh \div 2, bw, bh), "Right"),
          btn(Rect(cx - bw \div 2, cy + gap + bh \div 2, bw, bh), "Down"),
          btn(Rect(start_x, bottom_y, btn_w, btn_h), "Home"),
          btn(Rect(start_x + btn_w + 20, bottom_y, btn_w, btn_h), "Play"),
          btn(Rect(start_x + 2 * (btn_w + 20), bottom_y, btn_w, btn_h), "Back")>>

\* RemoteScreen.__init__
RemoteScreen_new == [back_rect |-> None, press |-> PressTracker_new(Len(RemoteButtons))]

\* The remote screen of the current state.
Remote == remote

\* RemoteScreen.on_enter
RemoteScreen_on_enter(s) == [s EXCEPT !.press = PressTracker_new(Len(RemoteButtons))]

\* The first button of the list the point is in, counted from 1; 0 when none.
ButtonAt(pos) ==
    LET hits == {i \in 1..Len(RemoteButtons) :
                    Rect_collidepoint(RemoteButtons[i].rect, pos[1], pos[2])}
    IN  IF hits = {} THEN 0 ELSE CHOOSE i \in hits : \A j \in hits : i <= j

\* RemoteScreen.handle_event: the screen, what the router did and the roku
\* module after the event.
RemoteScreen_handle_event(s, a, rk, ev) ==
    LET idle == Result(a.screens, a.state, a.history, <<>>, NoError)
    IN  IF ev.type = MOUSEBUTTONDOWN
        THEN IF s.back_rect # None /\ Rect_collidepoint(s.back_rect, ev.pos[1], ev.pos[2])
             THEN [screen |-> s, app |-> App_go_back(a), roku |-> rk]
             ELSE LET i == ButtonAt(ev.pos)
                  IN  IF i = 0
                      THEN [screen |-> s, app |-> idle, roku |-> rk]
                      ELSE [screen |-> [s EXCEPT !.press = PressTracker_trigger(@, i - 1)],
                            app |-> idle,
                            roku |-> roku_send_keypress(rk, RemoteButtons[i].roku_key)]
        ELSE [screen |-> s, app |-> idle, roku |-> rk]

\* RemoteScreen.update
RemoteScreen_update(s, dt) == [s EXCEPT !.press = PressTracker_update(@, dt)]

\* RemoteScreen.draw: what it leaves in the object is back_rect (draw_header
\* returns the rect of draw_back_button).
RemoteScreen_draw(s) == [s EXCEPT !.back_rect = draw_back_button]

\* config.SHOWS_DATA: name, channel_id, content_id, media_type
SHOWS_DATA ==
    <<[name |-> "Bluey", channel_id |-> 291097, content_id |-> "fa6973b9-e7cf-49fb-81a2-d4908e4bf694", media_type |-> "series"],
      [name |-> "Little Mermaid", channel_id |-> 291097, content_id |-> "f7643452-fe64-4b05-8f09-c8bea9b2dd60", media_type |-> "movie"],
      [name |-> "Frozen", channel_id |-> 291097, content_id |-> "04c97b72-504b-47f2-9c6f-fe13d9aea82f", media_type |-> "movie"],
      [name |-> "Aladdin", channel_id |-> 291097, content_id |-> "bfad6284-a0aa-4ae1-8469-dc1653121dbb", media_type |-> "movie"],
      [name |-> "Lion King", channel_id |-> 291097, content_id |-> "87524f44-a8ea-4b08-b4d8-39103bed3eaa", media_type |-> "movie"],
      [name |-> "K-Pop Demon H.", channel_id |-> 12, content_id |-> "81498621", media_type |-> "movie"],
      [name |-> "Moana", channel_id |-> 291097, content_id |-> "e8896bfa-1052-41f7-ae2e-00255d77cf05", media_type |-> "movie"],
      [name |-> "Princess & Frog", channel_id |-> 291097, content_id |-> "2349fffc-2124-4eca-b5e5-a8bb97e569c4", media_type |-> "movie"],
      [name |-> "Elmo", channel_id |-> 61322, content_id |-> "f175ce7b-ab72-4ac9-a029-c8c29bd17b7c", media_type |-> "series"],
      [name |-> "Ms. Rachel", channel_id |-> 12, content_id |-> "81975233", media_type |-> "series"],
      [name |-> "Wall-E", channel_id |-> 291097, content_id |-> "280395a4-d5ef-4dd0-bd09-d91c31593d3d", media_type |-> "movie"],
      [name |-> "Toy Story", channel_id |-> 291097, content_id |-> "f6174ebf-cb92-453c-a52b-62bb3576e402", media_type |-> "movie"],
      [name |-> "Tarzan", channel_id |-> 291097, content_id |-> "6246ebb7-7e52-4767-974c-5da108c6644f", media_type |-> "movie"]>>

\* The class attributes of ShowsScreen.
MARGIN == 14
GAP_X == 12
GAP_Y == 10
CARD_W == (WIDTH - MARGIN * 2 - GAP_X) \div 2
HEADER_H == 80
GRID_TOP == HEADER_H + 10
\* int(CARD_W * 0.58), and int(IMG_W_IN_CARD / (256 / 112))
IMG_W_IN_CARD == (CARD_W * 58) \div 100
IMG_H_IN_CARD == (IMG_W_IN_CARD * 112) \div 256
CARD_H == IMG_H_IN_CARD + 34

\* content_h and visible_h of ShowsScreen.__init__, and the max_scroll
\* property.
Shows_content_h ==
    LET num_rows == (Len(SHOWS_DATA) + 1) \div 2
    IN  num_rows * CARD_H + (num_rows - 1) * GAP_Y
Shows_visible_h == HEIGHT - GRID_TOP
Shows_max_scroll == Max(0, Shows_content_h - Shows_visible_h)

\* A value held by a field that can also hold None.
Some(v) == [value |-> v]

\* ShowsScreen.__init__
ShowsScreen_new ==
    [back_rect |-> None, scroll_y |-> 0, touch_down_pos |-> None, touch_prev_y |-> None,
     is_scrolling |-> FALSE, press |-> PressTracker_new(Len(SHOWS_DATA))]

\* The shows screen of the current state.
Shows == shows

\* ShowsScreen.on_enter
ShowsScreen_on_enter(s) ==
    [s EXCEPT !.scroll_y = 0, !.press = PressTracker_new(Len(SHOWS_DATA))]

\* ShowsScreen._card_rect, index counted from 0
ShowsScreen_card_rect(s, index) ==
    LET col == index % 2
        row == index \div 2
    IN  Rect(MARGIN + col * (CARD_W + GAP_X),
             GRID_TOP + row * (CARD_H + GAP_Y) - s.scroll_y, CARD_W, CARD_H)

\* The first card, counted from 0, that the point is in and whose top is not
\* under the header; -1 when none.
CardAt(s, pos) ==
    LET hits == {i \in 0..(Len(SHOWS_DATA) - 1) :
                    /\ Rect_collidepoint(ShowsScreen_card_rect(s, i), pos[1], pos[2])
                    /\ ShowsScreen_card_rect(s, i).y >= HEADER_H - 10}
    IN  IF hits = {} THEN -1 ELSE CHOOSE i \in hits : \A j \in hits : i <= j

\* ShowsScreen.handle_event: the screen, what the router did and the roku
\* module after the event.
ShowsScreen_handle_event(s, a, rk, ev) ==
    LET idle == Result(a.screens, a.state, a.history, <<>>, NoError)
        released == [s EXCEPT !.touch_down_pos = None, !.touch_prev_y = None,
                              !.is_scrolling = FALSE]
    IN  IF ev.type = MOUSEBUTTONDOWN
        THEN LET s1 == [s EXCEPT !.touch_down_pos = Some(ev.pos),
                                 !.touch_prev_y = Some(ev.pos[2]),
                                 !.is_scrolling = FALSE]
             IN  IF s.back_rect # None /\ Rect_collidepoint(s.back_rect, ev.pos[1], ev.pos[2])
                 THEN [screen |-> [s1 EXCEPT !.touch_down_pos = None],
                       app |-> App_go_back(a), roku |-> rk]
                 ELSE [screen |-> s1, app |-> idle, roku |-> rk]
        ELSE IF ev.type = MOUSEMOTION
        THEN IF s.touch_down_pos # None /\ s.touch_prev_y # None
             THEN LET dy == ev.pos[2] - s.touch_prev_y.value
                      dx_total == Abs(ev.pos[1] - s.touch_down_pos.value[1])
                      dy_total == Abs(ev.pos[2] - s.touch_down_pos.value[2])
                      scrolling == s.is_scrolling \/ (dy_total > 10 /\ dy_total > dx_total)
                  IN  [screen |-> [s EXCEPT !.is_scrolling = scrolling,
                                            !.scroll_y = IF scrolling
                                                         THEN Max(0, Min(@ - dy, Shows_max_scroll))
                                                         ELSE @,
                                            !.touch_prev_y = Some(ev.pos[2])],
                       app |-> idle, roku |-> rk]
             ELSE [screen |-> s, app |-> idle, roku |-> rk]
        ELSE IF ev.type = MOUSEBUTTONUP
        THEN IF s.touch_down_pos # None
             THEN LET dx == ev.pos[1] - s.touch_down_pos.value[1]
                      dy == ev.pos[2] - s.touch_down_pos.value[2]
                  IN  IF ~s.is_scrolling /\ Abs(dx) > 80 /\ 2 * Abs(dx) > 3 * Abs(dy)
                      THEN [screen |-> released,
                            app |-> IF dx < 0 THEN App_go_to(a, REMOTE) ELSE idle,
                            roku |-> rk]
                      ELSE IF ~s.is_scrolling /\ Abs(dx) < 15 /\ Abs(dy) < 15
                                /\ CardAt(s, ev.pos) >= 0
                      THEN LET i == CardAt(s, ev.pos)
                           IN  [screen |-> [released EXCEPT
                                               !.press = PressTracker_trigger(@, i)],
                                app |-> idle,
                                roku |-> roku_launch_show(rk, SHOWS_DATA[i + 1].channel_id,
                                                          SHOWS_DATA[i + 1].content_id,
                                                          SHOWS_DATA[i + 1].media_type)]
                      ELSE [screen |-> released, app |-> idle, roku |-> rk]
             ELSE [screen |-> released, app |-> idle, roku |-> rk]
        ELSE [screen |-> s, app |-> idle, roku |-> rk]

\* ShowsScreen.update
ShowsScreen_update(s, dt) == [s EXCEPT !.press = PressTracker_update(@, dt)]

\* ShowsScreen.draw: what it leaves in the object is back_rect.
ShowsScreen_draw(s) == [s EXCEPT !.back_rect = draw_back_button]

\* ---------------------------------------------------------------------------
\* VideosScreen (src/screens/videos.py).  The thread started for a video is
\* a record of the list threads until _play_video returns; its end is a
\* step of the model of its own, taken at any time.  Times are in hundredths
\* of a second, positions in whole pixels.
\* ---------------------------------------------------------------------------

\* config.VIDEOS_DATA: the repository ships the list empty, with examples to
\* fill in; the model fills it with VideoCount videos, the i-th with
\* video_id i.
VIDEOS_DATA == [i \in 1..VideoCount |-> [video_id |-> i]]

\* The class attributes of VideosScreen (HEADER_H and GRID_TOP are those of
\* ShowsScreen).
VIDEOS_MARGIN == 20
VIDEOS_GAP == 16
VIDEOS_COLS == 2
VIDEOS_CARD_W == (WIDTH - VIDEOS_MARGIN * 2 - VIDEOS_GAP * (2 - 1)) \div 2
VIDEOS_CARD_H == 140

\* content_h and visible_h of VideosScreen.__init__, and the max_scroll
\* property.
Videos_content_h ==
    LET num_rows == (Len(VIDEOS_DATA) + VIDEOS_COLS - 1) \div VIDEOS_COLS
    IN  num_rows * VIDEOS_CARD_H + Max(0, num_rows - 1) * VIDEOS_GAP
Videos_visible_h == HEIGHT - GRID_TOP
Videos_max_scroll == Max(0, Videos_content_h - Videos_visible_h)

\* VideosScreen.__init__
VideosScreen_new ==
    [back_rect |-> None, press |-> PressTracker_new(Max(1, Len(VIDEOS_DATA))),
     scroll_y |-> 0, playing |-> FALSE,
     touch_down_pos |-> None, touch_prev_y |-> None, is_scrolling |-> FALSE,
     threads |-> <<>>, ended |-> [outcome |-> "-", clears |-> 0]]

\* The videos screen of the current state.
Videos == videos

\* VideosScreen.on_enter
VideosScreen_on_enter(s) ==
    [s EXCEPT !.scroll_y = 0, !.press = PressTracker_new(Max(1, Len(VIDEOS_DATA))),
              !.playing = FALSE]

\* VideosScreen._card_rect, index counted from 0
VideosScreen_card_rect(s, index) ==
    LET col == index % VIDEOS_COLS
        row == index \div VIDEOS_COLS
    IN  Rect(VIDEOS_MARGIN + col * (VIDEOS_CARD_W + VIDEOS_GAP),
             GRID_TOP + row * (VIDEOS_CARD_H + VIDEOS_GAP) - s.scroll_y,
             VIDEOS_CARD_W, VIDEOS_CARD_H)

\* The first card, counted from 0, that the point is in and whose top is not
\* under the header; -1 when none.
VideoAt(s, pos) ==
    LET hits == {i \in 0..(Len(VIDEOS_DATA) - 1) :
                    /\ Rect_collidepoint(VideosScreen_card_rect(s, i), pos[1], pos[2])
                    /\ VideosScreen_card_rect(s, i).y >= HEADER_H - 10}
    IN  IF hits = {} THEN -1 ELSE CHOOSE i \in hits : \A j \in hits : i <= j

\* VideosScreen.handle_event below its first two lines: the screen and what
\* the router did.
VideosScreen_handle_pointer(s, a, ev) ==
    LET idle == Result(a.screens, a.state, a.history, <<>>, NoError)
        released == [s EXCEPT !.touch_down_pos = None, !.touch_prev_y = None,
                              !.is_scrolling = FALSE]
    IN  IF ev.type = MOUSEBUTTONDOWN
        THEN LET s1 == [s EXCEPT !.touch_down_pos = Some(ev.pos),
                                 !.touch_prev_y = Some(ev.pos[2]),
                                 !.is_scrolling = FALSE]
             IN  IF s.back_rect # None /\ Rect_collidepoint(s.back_rect, ev.pos[1], ev.pos[2])
                 THEN [screen |-> [s1 EXCEPT !.touch_down_pos = None], app |-> App_go_back(a)]
                 ELSE [screen |-> s1, app |-> idle]
        ELSE IF ev.type = MOUSEMOTION
        THEN IF s.touch_down_pos # None /\ s.touch_prev_y # None
             THEN LET dy == ev.pos[2] - s.touch_prev_y.value
                      dx_total == Abs(ev.pos[1] - s.touch_down_pos.value[1])
                      dy_total == Abs(ev.pos[2] - s.touch_down_pos.value[2])
                      scrolling == s.is_scrolling \/ (dy_total > 10 /\ dy_total > dx_total)
                  IN  [screen |-> [s EXCEPT !.is_scrolling = scrolling,
                                            !.scroll_y = IF scrolling
                                                         THEN Max(0, Min(@ - dy, Videos_max_scroll))
                                                         ELSE @,
                                            !.touch_prev_y = Some(ev.pos[2])],
                       app |-> idle]
             ELSE [screen |-> s, app |-> idle]
        ELSE IF ev.type = MOUSEBUTTONUP
        THEN IF s.touch_down_pos # None
                /\ ~s.is_scrolling
                /\ Abs(ev.pos[1] - s.touch_down_pos.value[1]) < 15
                /\ Abs(ev.pos[2] - s.touch_down_pos.value[2]) < 15
                /\ VideoAt(s, ev.pos) >= 0
             THEN LET i == VideoAt(s, ev.pos)
                  IN  [screen |-> [released EXCEPT
                                      !.press = PressTracker_trigger(@, i),
                                      !.playing = TRUE,
                                      !.threads = Append(@, [video_id |-> VIDEOS_DATA[i + 1].video_id,
                                                             stage |-> "run",
                                                             outcome |-> "-"])],
                       app |-> idle]
             ELSE [screen |-> released, app |-> idle]
        ELSE [screen |-> s, app |-> idle]

\* Mutant of VideosScreen_handle_event: playing is not looked at.
VideosScreen_handle_event_unguarded(s, a, ev) == VideosScreen_handle_pointer(s, a, ev)

\* VideosScreen.handle_event: `if self.playing: return` first.
VideosScreen_handle_event(s, a, ev) ==
    IF s.playing
    THEN [screen |-> s, app |-> Result(a.screens, a.state, a.history, <<>>, NoError)]
    ELSE VideosScreen_handle_pointer(s, a, ev)

\* VideosScreen.update
VideosScreen_update(s, dt) == [s EXCEPT !.press = PressTracker_update(@, dt)]

\* VideosScreen.draw: what it leaves in the object is back_rect.
VideosScreen_draw(s) == [s EXCEPT !.back_rect = draw_back_button]

\* How subprocess.run ends: the player exits, runs for 30 minutes and is
\* killed, cannot be launched, or something else is raised.
PlayOutcomes == {"exit", "TimeoutExpired", "FileNotFoundError", "Exception"}

\* Mutant of VideosScreen_play_video_run: only TimeoutExpired is caught; any
\* other exception ends the thread there.
VideosScreen_play_video_run_uncaught(s, i, outcome) ==
    IF outcome \in {"exit", "TimeoutExpired"}
    THEN [s EXCEPT !.threads[i].stage = "finally", !.threads[i].outcome = outcome]
    ELSE [s EXCEPT !.threads = ListRemove(@, i),
                   !.ended = [outcome |-> outcome, clears |-> 0]]

\* Mutant of VideosScreen_play_video_run: playing is cleared when the player
\* ends, and the thread lives on for a while.
VideosScreen_play_video_run_clears(s, i, outcome) ==
    [s EXCEPT !.threads[i].stage = "finally", !.threads[i].outcome = outcome,
              !.playing = FALSE]

\* VideosScreen._play_video in thread i, the try statement: subprocess.run
\* returns or raises, and whatever it raises is caught and passed over.
VideosScreen_play_video_run(s, i, outcome) ==
    [s EXCEPT !.threads[i].stage = "finally", !.threads[i].outcome = outcome]

\* VideosScreen._play_video in thread i, its last statement
\* `self.playing = False`, after which the thread is over.  The history
\* field ended keeps how the unit ended and how often it cleared playing.
VideosScreen_play_video_end(s, i) ==
    [s EXCEPT !.threads = ListRemove(@, i), !.playing = FALSE,
              !.ended = [outcome |-> s.threads[i].outcome, clears |-> 1]]

\* ---------------------------------------------------------------------------
\* The render loop of main (src/main.py): one step of the model is one
\* statement of the loop that calls the router, or the fetch of the frame's
\* events.
\* ---------------------------------------------------------------------------

QUIT == "QUIT"
KEYDOWN == "KEYDOWN"
K_ESCAPE == "K_ESCAPE"

\* main before the loop; pc is "tick" at the head of the loop, "events"
\* inside `for event in pygame.event.get()` and before app.update, "draw"
\* before app.draw and "exit" after sys.exit(); fetched is the list
\* event.get() returned and next the index of the event the for loop takes
\* next; trace is history: the calls made on the router in the frame.
Loop_new == [pc |-> "tick", dt |-> 0, fetched |-> <<>>, next |-> 1, trace |-> <<>>]

\* The loop of the current state.
Loop == loop

\* `dt = clock.tick(FPS) / 1000.0` and the call of pygame.event.get()
Loop_tick(l, dt, events) ==
    [l EXCEPT !.pc = "events", !.dt = dt, !.fetched = events, !.next = 1, !.trace = <<>>]

\* Mutant of Quits: only the Escape key ends the program.
Quits_on_escape_only(ev) == ev.type = KEYDOWN /\ ev.key = K_ESCAPE

\* The two tests of the body of the for loop that end the program.
Quits(ev) == ev.type = QUIT \/ (ev.type = KEYDOWN /\ ev.key = K_ESCAPE)

\* The body of the for loop for the next event: pygame.quit(); sys.exit(),
\* or app.handle_event(event).
Loop_event(l) ==
    IF Quits(l.fetched[l.next])
    THEN [l EXCEPT !.pc = "exit"]
    ELSE [l EXCEPT !.next = @ + 1,
                   !.trace = Append(@, [op |-> "handle_event", event |-> l.fetched[l.next]])]

\* app.update(dt), after the for loop
Loop_update(l) ==
    [l EXCEPT !.pc = "draw", !.trace = Append(@, [op |-> "update", event |-> None])]

\* app.draw(screen) and pygame.display.flip()
Loop_draw(l) ==
    [l EXCEPT !.pc = "tick", !.trace = Append(@, [op |-> "draw", event |-> None])]

\* ---------------------------------------------------------------------------
\* App: initial state and actions
\* ---------------------------------------------------------------------------

NoArg == "-"

\* The history variable after call name(arg) with result r: the call, the
\* router fields before it, what it invoked and raised, and every id that was
\* ever passed to go_to.
Log(name, arg, r) ==
    [op |-> [name |-> name, arg |-> arg],
     before |-> [state |-> state, history |-> history],
     calls |-> r.calls,
     raised |-> r.raised,
     targets |-> IF name = "go_to" THEN app_log.targets \cup {arg} ELSE app_log.targets]

InitialLog ==
    [op |-> [name |-> "init", arg |-> NoArg],
     before |-> [state |-> MAIN_MENU, history |-> <<>>],
     calls |-> <<>>, raised |-> NoError, targets |-> {}]

\* Mutant of App_init: the router starts on an id other than MAIN_MENU.
App_init_wrong_start ==
    /\ screens = <<>>
    /\ state = GAMES_MENU
    /\ history = <<>>
    /\ app_log = InitialLog

\* App.__init__
App_init ==
    /\ screens = <<>>
    /\ state = MAIN_MENU
    /\ history = <<>>
    /\ app_log = InitialLog

Apply(name, arg, r) ==
    /\ screens' = r.screens
    /\ state' = r.state
    /\ history' = r.history
    /\ app_log' = Log(name, arg, r)
    /\ UNCHANGED <<poolVars, screenVars, laterVars>>

Register(s, screen) == Apply("register", s, App_register(App, s, screen))

GoTo(s) ==
    /\ Len(history) < MaxHistory
    /\ Apply("go_to", s, App_go_to(App, s))

GoBack == Apply("go_back", NoArg, App_go_back(App))

HandleEvent == Apply("handle_event", NoArg, App_handle_event(App))

Update == Apply("update", NoArg, App_update(App))

Draw == Apply("draw", NoArg, App_draw(App))

\* ---------------------------------------------------------------------------
\* ParticlePool: initial state and actions
\* ---------------------------------------------------------------------------

InitialPoolLog == [op |-> "init", ret |-> "None", raised |-> NoError, dt |-> 0, removed |-> <<>>]

Pool_init ==
    /\ count = ParticlePool_new.count
    /\ life = ParticlePool_new.life
    /\ max_life = ParticlePool_new.max_life
    /\ size = ParticlePool_new.size
    /\ age = ParticlePool_new.age
    /\ exact = ParticlePool_new.exact
    /\ pool_log = InitialPoolLog

SetPool(w) ==
    /\ count' = w.count
    /\ life' = w.life
    /\ max_life' = w.max_life
    /\ size' = w.size
    /\ age' = w.age
    /\ exact' = w.exact

\* pool.emit(.., plife, psize)
PoolEmit(plife, psize) ==
    LET r == ParticlePool_emit(Pool, plife, psize)
    IN  /\ SetPool(r.pool)
        /\ pool_log' = [op |-> "emit", ret |-> r.ret, raised |-> r.raised, dt |-> 0,
                        removed |-> <<>>]
        /\ UNCHANGED <<appVars, screenVars, laterVars>>

\* pool.update(dt, gravity)
PoolUpdate(dt) ==
    LET r == ParticlePool_update(Pool, dt)
    IN  /\ SetPool(r.pool)
        /\ pool_log' = [op |-> "update", ret |-> "None", raised |-> NoError, dt |-> dt,
                        removed |-> r.removed]
        /\ UNCHANGED <<appVars, screenVars, laterVars>>

\* pool.clear()
PoolClear ==
    /\ SetPool(ParticlePool_clear(Pool))
    /\ pool_log' = [op |-> "clear", ret |-> "None", raised |-> NoError, dt |-> 0,
                    removed |-> <<>>]
    /\ UNCHANGED <<appVars, screenVars, laterVars>>

\* ---------------------------------------------------------------------------
\* The playground inside the application: initial state and actions
\* ---------------------------------------------------------------------------

\* The pointer events the playground is driven with: a press on the back
\* button, a press on the toolbar strip followed by a move of more than the
\* drag threshold and a release, and a press and a release in the play area.
PointerEvents ==
    {[type |-> MOUSEBUTTONDOWN, pos |-> <<50, 50>>],
     [type |-> MOUSEBUTTONDOWN, pos |-> <<300, 40>>],
     [type |-> MOUSEMOTION, pos |-> <<310, 40>>],
     [type |-> MOUSEBUTTONUP, pos |-> <<310, 40>>],
     [type |-> MOUSEBUTTONDOWN, pos |-> <<300, 400>>],
     [type |-> MOUSEBUTTONUP, pos |-> <<300, 400>>]}

\* The frame deltas of the playground, in tenths of a second.
FrameDts == {20}

\* main.py: App() followed by the register calls.
App_main ==
    LET hooked == [has_on_enter |-> TRUE]
        a0 == [screens |-> <<>>, state |-> MAIN_MENU, history |-> <<>>]
        a1 == App_register(a0, MAIN_MENU, hooked)
        a2 == App_register(a1, GAMES_MENU, hooked)
        a3 == App_register(a2, FINGER_PAINT, hooked)
        a4 == App_register(a3, SHAPE_SORTER, hooked)
        a5 == App_register(a4, MAGIC_GARDEN, hooked)
        a6 == App_register(a5, FIREWORKS, hooked)
        a7 == App_register(a6, PARTICLE_PLAYGROUND, hooked)
        a8 == App_register(a7, WEATHER_TOY, hooked)
        a9 == App_register(a8, SHOWS, hooked)
        a10 == App_register(a9, REMOTE, hooked)
        a11 == App_register(a10, VIDEOS, hooked)
    IN  /\ screens = a11.screens
        /\ state = a11.state
        /\ history = a11.history
        /\ app_log = InitialLog

Screen_init ==
    /\ mode = ParticlePlaygroundScreen_new.mode
    /\ palette = ParticlePlaygroundScreen_new.palette
    /\ hue = ParticlePlaygroundScreen_new.hue
    /\ touching = ParticlePlaygroundScreen_new.touching
    /\ touch_x = ParticlePlaygroundScreen_new.touch_x
    /\ touch_y = ParticlePlaygroundScreen_new.touch_y
    /\ back_rect = ParticlePlaygroundScreen_new.back_rect
    /\ rain_timer = ParticlePlaygroundScreen_new.rain_timer
    /\ toolbar = ParticlePlaygroundScreen_new.toolbar
    /\ screen_log = [op |-> "init"]

SetApp(name, arg, r) ==
    /\ screens' = r.screens
    /\ state' = r.state
    /\ history' = r.history
    /\ app_log' = Log(name, arg, r)
    /\ UNCHANGED laterVars

SetScreen(s) ==
    /\ SetPool(s.pool)
    /\ mode' = s.mode
    /\ palette' = s.palette
    /\ hue' = s.hue
    /\ touching' = s.touching
    /\ touch_x' = s.touch_x
    /\ touch_y' = s.touch_y
    /\ back_rect' = s.back_rect
    /\ rain_timer' = s.rain_timer
    /\ toolbar' = s.toolbar
    /\ UNCHANGED pool_log

\* The router called the named hook of the playground screen.
Invoked(calls, hook) ==
    \E k \in 1..Len(calls) : calls[k].hook = hook /\ calls[k].screen = PARTICLE_PLAYGROUND

\* A router call with result r, the playground's on_enter included when the
\* router invoked it.
Routed(name, arg, r) ==
    /\ SetApp(name, arg, r)
    /\ IF Invoked(r.calls, "on_enter")
       THEN /\ SetScreen(ParticlePlaygroundScreen_on_enter(Screen))
            /\ screen_log' = [op |-> "on_enter"]
       ELSE UNCHANGED <<poolVars, screenVars>>

\* MainMenuScreen.update and GamesMenuScreen.update: the pending navigation
\* fires (to the games menu, and from there to the playground).
MenuGoTo ==
    /\ state \in {MAIN_MENU, GAMES_MENU}
    /\ LET target == IF state = MAIN_MENU THEN GAMES_MENU ELSE PARTICLE_PLAYGROUND
       IN  Routed("go_to", target, App_go_to(App, target))

\* GamesMenuScreen.handle_event: the back button
MenuGoBack ==
    /\ state = GAMES_MENU
    /\ Routed("go_back", NoArg, App_go_back(App))

\* app.handle_event(event) reaching the playground
PlaygroundEvent(ev, draws) ==
    LET d == App_handle_event(App)
        r == ParticlePlaygroundScreen_handle_event(Screen, App, ev, draws)
    IN  /\ Invoked(d.calls, "handle_event")
        /\ SetApp("handle_event", NoArg,
                  Result(r.app.screens, r.app.state, r.app.history, d.calls \o r.app.calls, r.app.raised))
        /\ SetScreen(IF Invoked(r.app.calls, "on_enter")
                     THEN ParticlePlaygroundScreen_on_enter(r.screen)
                     ELSE r.screen)
        /\ screen_log' = [op |-> IF Invoked(r.app.calls, "on_enter") THEN "on_enter" ELSE "handle_event"]

\* app.update(dt) reaching the playground
PlaygroundUpdate(dt, draws) ==
    LET d == App_update(App)
    IN  /\ Invoked(d.calls, "update")
        /\ SetApp("update", NoArg, d)
        /\ SetScreen(ParticlePlaygroundScreen_update(Screen, dt, draws))
        /\ screen_log' = [op |-> "update"]

\* app.draw(surface) reaching the playground
PlaygroundDraw ==
    LET d == App_draw(App)
    IN  /\ Invoked(d.calls, "draw")
        /\ SetApp("draw", NoArg, d)
        /\ SetScreen(ParticlePlaygroundScreen_draw(Screen))
        /\ screen_log' = [op |-> "draw"]

\* ---------------------------------------------------------------------------
\* ParticlePool with its kinematic arrays: initial state and actions
\* ---------------------------------------------------------------------------

\* Where, how fast, in which colour, of which size and for how long the
\* particles are emitted (pixels, pixels per second, r g b, pixels, tenths of
\* a second): in the open, next to the left wall, in the bottom right corner,
\* moving up under the toolbar line, and a short-lived one in the open.
Launches ==
    {[x |-> 360, y |-> 360, vx |-> 0, vy |-> 0, rgb |-> <<255, 0, 0>>, size |-> 2, life |-> 20],
     [x |-> 1, y |-> 360, vx |-> -10, vy |-> 0, rgb |-> <<0, 255, 0>>, size |-> 3, life |-> 20],
     [x |-> 718, y |-> 718, vx |-> 10, vy |-> 0, rgb |-> <<0, 0, 255>>, size |-> 3, life |-> 20],
     [x |-> 360, y |-> 81, vx |-> 3, vy |-> -20, rgb |-> <<255, 255, 0>>, size |-> 4, life |-> 20],
     [x |-> 200, y |-> 300, vx |-> 5, vy |-> 0, rgb |-> <<255, 255, 255>>, size |-> 5, life |-> 10]}

\* The frame deltas (tenths of a second) and gravities (pixels per second
\* squared) of the kinematic specification.
MotionDts == {10}
Gravities == {10}

Body_init == body = Body_new

\* pool.emit(px, py, pvx, pvy, .., plife, psize)
MotionEmit(l, plife, psize) ==
    LET r == ParticlePool_emit(Pool, plife, psize)
    IN  /\ SetPool(r.pool)
        /\ body' = Body_emit(body, Pool, Px(l.x), Px(l.y), Px(l.vx), Px(l.vy), l.rgb)
        /\ pool_log' = [op |-> "emit", ret |-> r.ret, raised |-> r.raised, dt |-> 0,
                        removed |-> <<>>]
        /\ UNCHANGED <<appVars, screenVars, allButBody>>

\* pool.update(dt, gravity)
MotionUpdate(dt, gravity) ==
    LET r == ParticlePool_update(Pool, dt)
        k == ParticlePool_update_motion(Motion, dt, gravity)
    IN  /\ SetPool(r.pool)
        /\ body' = [x |-> k.x, y |-> k.y, vx |-> k.vx, vy |-> k.vy, rgb |-> k.rgb]
        /\ pool_log' = [op |-> "update", ret |-> "None", raised |-> NoError, dt |-> dt,
                        removed |-> r.removed]
        /\ UNCHANGED <<appVars, screenVars, allButBody>>

\* pool.clear()
MotionClear ==
    /\ SetPool(ParticlePool_clear(Pool))
    /\ pool_log' = [op |-> "clear", ret |-> "None", raised |-> NoError, dt |-> 0,
                    removed |-> <<>>]
    /\ UNCHANGED <<appVars, screenVars, laterVars>>

\* ---------------------------------------------------------------------------
\* The shape sorter inside the application: initial state and actions
\* ---------------------------------------------------------------------------

\* The start positions random.randint draws for the shapes (x from
\* 120..WIDTH-120, y from 130..300): side by side, or all on one point
\* near the back button.
StartDraws ==
    {[i \in 1..ShapeCount |-> <<200 * Min(i, 3), 200>>],
     [i \in 1..ShapeCount |-> <<145, 150>>]}

\* The life random.uniform(0.4, 0.8) draws for a snap particle, milliseconds.
SnapLives == {600}

\* The frame deltas of the shape sorter, in milliseconds: an eighth and a
\* half of a second.
SorterDts == {125, 500}

\* The target of the i-th shape, as _build_shapes computes it.
TargetOf(i) == <<(WIDTH \div (ShapeCount + 1)) * i, HEIGHT - 150>>

\* Where the pointer is moved to, relative to a target: onto it, and to a
\* point at distance SNAP_DIST from it.
Offsets == {<<0, 0>>, <<33, 44>>}

\* The pointer events the shape sorter is driven with: presses on the back
\* button, on a start position and next to the other one, moves to and
\* around every target, releases, and the right button.
SorterEvents ==
    {[type |-> MOUSEBUTTONDOWN, pos |-> <<50, 50>>, button |-> 1],
     [type |-> MOUSEBUTTONDOWN, pos |-> <<200, 200>>, button |-> 1],
     [type |-> MOUSEBUTTONDOWN, pos |-> <<410, 210>>, button |-> 1],
     [type |-> MOUSEBUTTONDOWN, pos |-> <<200, 200>>, button |-> 3],
     [type |-> MOUSEBUTTONUP, pos |-> <<300, 400>>, button |-> 1],
     [type |-> MOUSEBUTTONUP, pos |-> <<300, 400>>, button |-> 3]}
    \cup {[type |-> MOUSEMOTION, pos |-> <<TargetOf(i)[1] + d[1], TargetOf(i)[2] + d[2]>>,
           button |-> 0] : i \in 1..ShapeCount, d \in Offsets}

Sorter_init == sorter = ShapeSorterScreen_new

\* The router called the named hook of the screen registered for id.
InvokedOn(calls, hook, id) ==
    \E k \in 1..Len(calls) : calls[k].hook = hook /\ calls[k].screen = id

\* The router fields after a call with result r made while the shape sorter
\* is the part under study.
SorterApp(name, arg, r) ==
    /\ screens' = r.screens
    /\ state' = r.state
    /\ history' = r.history
    /\ app_log' = Log(name, arg, r)
    /\ UNCHANGED <<poolVars, screenVars, allButSorter>>

\* MainMenuScreen.update and GamesMenuScreen.update: the pending navigation
\* fires (to the games menu, and from there to the shape sorter, whose
\* on_enter builds the shapes).
SorterMenuGoTo(starts) ==
    /\ state \in {MAIN_MENU, GAMES_MENU}
    /\ LET target == IF state = MAIN_MENU THEN GAMES_MENU ELSE SHAPE_SORTER
           r == App_go_to(App, target)
       IN  /\ SorterApp("go_to", target, r)
           /\ sorter' = IF InvokedOn(r.calls, "on_enter", SHAPE_SORTER)
                        THEN ShapeSorterScreen_on_enter(Sorter, starts)
                        ELSE sorter

\* app.handle_event(event) reaching the shape sorter
SorterEvent(ev, plife) ==
    LET d == App_handle_event(App)
        r == ShapeSorterScreen_handle_event(Sorter, App, ev, plife)
    IN  /\ InvokedOn(d.calls, "handle_event", SHAPE_SORTER)
        /\ SorterApp("handle_event", NoArg,
                     Result(r.app.screens, r.app.state, r.app.history,
                            d.calls \o r.app.calls, r.app.raised))
        /\ sorter' = r.screen

\* app.update(dt) reaching the shape sorter
SorterUpdate(dt, starts) ==
    LET d == App_update(App)
    IN  /\ InvokedOn(d.calls, "update", SHAPE_SORTER)
        /\ SorterApp("update", NoArg, d)
        /\ sorter' = ShapeSorterScreen_update(Sorter, dt, starts)

\* app.draw(surface) reaching the shape sorter
SorterDraw ==
    LET d == App_draw(App)
    IN  /\ InvokedOn(d.calls, "draw", SHAPE_SORTER)
        /\ SorterApp("draw", NoArg, d)
        /\ sorter' = ShapeSorterScreen_draw(Sorter)

\* ---------------------------------------------------------------------------
\* The weather toy inside the application: initial state and actions
\* ---------------------------------------------------------------------------

\* The pointer events the weather toy is driven with: a press on the back
\* button; on the strip, a press on the second button, moves 100 pixels to
\* the left and to the right of it, and a release; a press in the band left
\* of the strip.
WeatherEvents ==
    {[type |-> MOUSEBUTTONDOWN, pos |-> <<50, 50>>],
     [type |-> MOUSEBUTTONDOWN, pos |-> <<300, 40>>],
     [type |-> MOUSEMOTION, pos |-> <<200, 40>>],
     [type |-> MOUSEMOTION, pos |-> <<400, 40>>],
     [type |-> MOUSEBUTTONUP, pos |-> <<300, 40>>],
     [type |-> MOUSEBUTTONDOWN, pos |-> <<100, 40>>]}

\* The frame deltas of the weather toy, in tenths of a second.
WeatherDts == {1}

Weather_init == weather = WeatherToyScreen_new

\* The router fields after a call with result r made while the weather toy
\* is the part under study.
WeatherApp(name, arg, r) ==
    /\ screens' = r.screens
    /\ state' = r.state
    /\ history' = r.history
    /\ app_log' = Log(name, arg, r)
    /\ UNCHANGED <<poolVars, screenVars, allButWeather>>

\* MainMenuScreen.update and GamesMenuScreen.update: the pending navigation
\* fires (to the games menu, and from there to the weather toy).
WeatherMenuGoTo ==
    /\ state \in {MAIN_MENU, GAMES_MENU}
    /\ LET target == IF state = MAIN_MENU THEN GAMES_MENU ELSE WEATHER_TOY
           r == App_go_to(App, target)
       IN  /\ WeatherApp("go_to", target, r)
           /\ weather' = IF InvokedOn(r.calls, "on_enter", WEATHER_TOY)
                         THEN WeatherToyScreen_on_enter(Weather)
                         ELSE weather

\* app.handle_event(event) reaching the weather toy
WeatherEvent(ev) ==
    LET d == App_handle_event(App)
        r == WeatherToyScreen_handle_event(Weather, App, ev)
    IN  /\ InvokedOn(d.calls, "handle_event", WEATHER_TOY)
        /\ WeatherApp("handle_event", NoArg,
                      Result(r.app.screens, r.app.state, r.app.history,
                             d.calls \o r.app.calls, r.app.raised))
        /\ weather' = r.screen

\* app.update(dt) reaching the weather toy
WeatherUpdate(dt) ==
    LET d == App_update(App)
    IN  /\ InvokedOn(d.calls, "update", WEATHER_TOY)
        /\ WeatherApp("update", NoArg, d)
        /\ weather' = WeatherToyScreen_update(Weather, dt)

\* app.draw(surface) reaching the weather toy
WeatherDraw ==
    LET d == App_draw(App)
    IN  /\ InvokedOn(d.calls, "draw", WEATHER_TOY)
        /\ WeatherApp("draw", NoArg, d)
        /\ weather' = WeatherToyScreen_draw(Weather)

\* ---------------------------------------------------------------------------
\* The bubble games: initial state and actions
\* ---------------------------------------------------------------------------

\* The radii random.randint(30, 65) (screen) and (30, 60) (box) draw.
Radii(kind) == {30, MaxRadius(kind)}

\* The positions the samples and the presses are drawn from: two centres 90
\* pixels apart and one far from both.
Positions == {<<100, 100>>, <<190, 100>>, <<400, 400>>}

\* The events of the bubble games: presses on the bubbles' centres, just
\* below the smallest bubble at the first centre, on the back button, on the
\* button of the splash screen, a release, and QUIT.
BubbleEvents ==
    {[type |-> MOUSEBUTTONDOWN, pos |-> p] :
        p \in Positions \cup {<<100, 132>>, <<50, 50>>, <<400, 500>>}}
    \cup {[type |-> MOUSEBUTTONUP, pos |-> <<100, 100>>]}
QuitEvent == [type |-> "QUIT", pos |-> <<0, 0>>]

\* sin(...) * bob_amount, bob_amount drawn from 2..5: whole pixels here.
Bobs == {0, 5}

\* The bobbing of n bubbles at the time of a press: the model draws the
\* times at which all of them are at the same height.
BobDraws(n) == {[i \in 1..n |-> b] : b \in Bobs}

Bubble_init == bubble = Game_new("BubblePopScreen")

\* Either of the two programs, as constructed.
Games_init == bubble \in {Game_new("BubblePopScreen"), Game_new("AvaGameBox")}

\* screen.on_enter()
BubbleEnter ==
    /\ bubble.kind = "BubblePopScreen"
    /\ bubble.pc = "idle"
    /\ bubble' = BubblePopScreen_on_enter(Game)
    /\ UNCHANGED <<appVars, poolVars, screenVars, allButBubble>>

\* screen.handle_event(event)
BubblePress(ev, bob) ==
    LET r == BubblePopScreen_handle_event(Game, App, ev, bob)
    IN  /\ bubble.kind = "BubblePopScreen"
        /\ bubble.pc = "idle"
        /\ bubble' = r.screen
        /\ screens' = r.app.screens
        /\ state' = r.app.state
        /\ history' = r.app.history
        /\ app_log' = IF r.app.calls = <<>> /\ r.app.raised = NoError /\ r.screen.log.op = "handle_event"
                         /\ ~(bubble.back_rect # None
                              /\ Rect_collidepoint(bubble.back_rect, ev.pos[1], ev.pos[2]))
                      THEN app_log
                      ELSE Log("go_back", NoArg, r.app)
        /\ UNCHANGED <<poolVars, screenVars, allButBubble>>

\* screen.update(dt)
BubbleUpdate ==
    /\ bubble.kind = "BubblePopScreen"
    /\ bubble.pc = "idle"
    /\ bubble' = BubblePopScreen_update(Game)
    /\ UNCHANGED <<appVars, poolVars, screenVars, allButBubble>>

\* screen.draw(surface)
BubbleDraw ==
    /\ bubble.kind = "BubblePopScreen"
    /\ bubble.pc = "idle"
    /\ bubble' = BubblePopScreen_draw(Game)
    /\ UNCHANGED <<appVars, poolVars, screenVars, allButBubble>>

\* One event of AvaGameBox.run
BoxEvent(ev) ==
    /\ bubble.kind = "AvaGameBox"
    /\ bubble.pc = "idle"
    /\ bubble' = AvaGameBox_event(Game, ev)
    /\ UNCHANGED <<appVars, poolVars, screenVars, allButBubble>>

\* The entry of spawn_bubble, of either program
SpawnBegin(radius) ==
    /\ bubble.pc = "call"
    /\ bubble' = Spawn_begin(Game, radius)
    /\ UNCHANGED <<appVars, poolVars, screenVars, allButBubble>>

\* One iteration of the sampling loop of spawn_bubble, of either program
SpawnAttempt(p) ==
    /\ bubble.pc = "loop"
    /\ InSampleRange(Game, p)
    /\ bubble' = Spawn_iterate(Game, p)
    /\ UNCHANGED <<appVars, poolVars, screenVars, allButBubble>>

\* ---------------------------------------------------------------------------
\* Shows, remote and the Roku helper: initial state and actions
\* ---------------------------------------------------------------------------

\* The events of the shows screen: a press on the first card, releases there
\* and far to its left, a move up by 300 pixels, a press on the back button.
ShowsEvents ==
    {[type |-> MOUSEBUTTONDOWN, pos |-> <<184, 450>>],
     [type |-> MOUSEBUTTONUP, pos |-> <<184, 450>>],
     [type |-> MOUSEMOTION, pos |-> <<184, 150>>],
     [type |-> MOUSEBUTTONUP, pos |-> <<50, 450>>],
     [type |-> MOUSEBUTTONDOWN, pos |-> <<50, 50>>]}

\* The events of the remote screen: presses on the back button, on Up and
\* beside the buttons, and a release.
RemoteEvents ==
    {[type |-> MOUSEBUTTONDOWN, pos |-> p] : p \in {<<50, 50>>, <<360, 192>>, <<600, 100>>}}
    \cup {[type |-> MOUSEBUTTONUP, pos |-> <<360, 192>>]}

\* The frame deltas of the two screens, in hundredths of a second.
PressDts == {20}

Shows_init == shows = ShowsScreen_new
Remote_init == remote = RemoteScreen_new

\* roku as the repository has it: ENABLED = False.
Roku_init == roku = roku_new(FALSE)

\* roku with either value of ENABLED.
Roku_either == roku \in {roku_new(FALSE), roku_new(TRUE)}

\* The router fields and the two screens after a call with result r: the
\* screen whose on_enter was invoked is entered.
RemoteApp(name, arg, r, s, rm) ==
    /\ screens' = r.screens
    /\ state' = r.state
    /\ history' = r.history
    /\ app_log' = Log(name, arg, r)
    /\ shows' = IF InvokedOn(r.calls, "on_enter", SHOWS) THEN ShowsScreen_on_enter(s) ELSE s
    /\ remote' = IF InvokedOn(r.calls, "on_enter", REMOTE) THEN RemoteScreen_on_enter(rm) ELSE rm
    /\ UNCHANGED <<poolVars, screenVars, allButRemoteParts>>

\* MainMenuScreen.update: the pending navigation to the shows fires.
RemoteMenuGoTo ==
    /\ state = MAIN_MENU
    /\ RemoteApp("go_to", SHOWS, App_go_to(App, SHOWS), Shows, Remote)
    /\ UNCHANGED roku

\* app.handle_event(event) reaching the shows screen
ShowsEvent(ev) ==
    LET d == App_handle_event(App)
        r == ShowsScreen_handle_event(Shows, App, Roku, ev)
    IN  /\ InvokedOn(d.calls, "handle_event", SHOWS)
        /\ Len(r.roku.threads) <= MaxThreads
        /\ RemoteApp("handle_event", NoArg,
                     Result(r.app.screens, r.app.state, r.app.history,
                            d.calls \o r.app.calls, r.app.raised),
                     r.screen, Remote)
        /\ roku' = r.roku

\* app.update(dt) reaching the shows screen
ShowsUpdate(dt) ==
    LET d == App_update(App)
    IN  /\ InvokedOn(d.calls, "update", SHOWS)
        /\ RemoteApp("update", NoArg, d, ShowsScreen_update(Shows, dt), Remote)
        /\ UNCHANGED roku

\* app.draw(surface) reaching the shows screen
ShowsDraw ==
    LET d == App_draw(App)
    IN  /\ InvokedOn(d.calls, "draw", SHOWS)
        /\ RemoteApp("draw", NoArg, d, ShowsScreen_draw(Shows), Remote)
        /\ UNCHANGED roku

\* app.handle_event(event) reaching the remote screen
RemoteEvent(ev) ==
    LET d == App_handle_event(App)
        r == RemoteScreen_handle_event(Remote, App, Roku, ev)
    IN  /\ InvokedOn(d.calls, "handle_event", REMOTE)
        /\ Len(r.roku.threads) <= MaxThreads
        /\ RemoteApp("handle_event", NoArg,
                     Result(r.app.screens, r.app.state, r.app.history,
                            d.calls \o r.app.calls, r.app.raised),
                     Shows, r.screen)
        /\ roku' = r.roku

\* app.update(dt) reaching the remote screen
RemoteUpdate(dt) ==
    LET d == App_update(App)
    IN  /\ InvokedOn(d.calls, "update", REMOTE)
        /\ RemoteApp("update", NoArg, d, Shows, RemoteScreen_update(Remote, dt))
        /\ UNCHANGED roku

\* app.draw(surface) reaching the remote screen
RemoteDraw ==
    LET d == App_draw(App)
    IN  /\ InvokedOn(d.calls, "draw", REMOTE)
        /\ RemoteApp("draw", NoArg, d, Shows, RemoteScreen_draw(Remote))
        /\ UNCHANGED roku

\* Thread i runs _post up to the call of urlopen
PostBegin(i) ==
    /\ i \in 1..Len(roku.threads)
    /\ roku.threads[i].stage = "started"
    /\ roku' = roku_post_begin(Roku, i)
    /\ UNCHANGED <<appVars, poolVars, screenVars, allButRoku>>

\* urlopen of thread i returns or raises, and the thread ends
PostEnd(i, outcome) ==
    /\ i \in 1..Len(roku.threads)
    /\ roku.threads[i].stage = "request"
    /\ roku' = roku_post_end(Roku, i, outcome)
    /\ UNCHANGED <<appVars, poolVars, screenVars, allButRoku>>

\* ---------------------------------------------------------------------------
\* The videos screen: initial state and actions
\* ---------------------------------------------------------------------------

\* The events of the videos screen: presses and releases on the first card
\* and on the fourth, a move up by 100 pixels from the first, a press on the
\* back button.
VideosEvents ==
    {[type |-> MOUSEBUTTONDOWN, pos |-> <<190, 160>>],
     [type |-> MOUSEBUTTONUP, pos |-> <<190, 160>>],
     [type |-> MOUSEBUTTONDOWN, pos |-> <<530, 300>>],
     [type |-> MOUSEBUTTONUP, pos |-> <<530, 300>>],
     [type |-> MOUSEMOTION, pos |-> <<190, 60>>],
     [type |-> MOUSEBUTTONDOWN, pos |-> <<50, 50>>]}

Videos_init == videos = VideosScreen_new

\* The router fields and the screen after a call with result r: the screen
\* is entered when its on_enter was invoked.
VideosApp(name, arg, r, s) ==
    /\ screens' = r.screens
    /\ state' = r.state
    /\ history' = r.history
    /\ app_log' = Log(name, arg, r)
    /\ videos' = IF InvokedOn(r.calls, "on_enter", VIDEOS) THEN VideosScreen_on_enter(s) ELSE s
    /\ UNCHANGED <<poolVars, screenVars, allButVideos>>

\* MainMenuScreen.update: the pending navigation to the videos fires.
VideosMenuGoTo ==
    /\ state = MAIN_MENU
    /\ VideosApp("go_to", VIDEOS, App_go_to(App, VIDEOS), Videos)

\* app.handle_event(event) reaching the videos screen
VideosEvent(ev) ==
    LET d == App_handle_event(App)
        r == VideosScreen_handle_event(Videos, App, ev)
    IN  /\ InvokedOn(d.calls, "handle_event", VIDEOS)
        /\ VideosApp("handle_event", NoArg,
                     Result(r.app.screens, r.app.state, r.app.history,
                            d.calls \o r.app.calls, r.app.raised),
                     r.screen)

\* app.update(dt) reaching the videos screen
VideosUpdate(dt) ==
    LET d == App_update(App)
    IN  /\ InvokedOn(d.calls, "update", VIDEOS)
        /\ VideosApp("update", NoArg, d, VideosScreen_update(Videos, dt))

\* app.draw(surface) reaching the videos screen
VideosDraw ==
    LET d == App_draw(App)
    IN  /\ InvokedOn(d.calls, "draw", VIDEOS)
        /\ VideosApp("draw", NoArg, d, VideosScreen_draw(Videos))

\* subprocess.run ends in thread i
PlayRun(i, outcome) ==
    /\ i \in 1..Len(videos.threads)
    /\ videos.threads[i].stage = "run"
    /\ videos' = VideosScreen_play_video_run(Videos, i, outcome)
    /\ UNCHANGED <<appVars, poolVars, screenVars, allButVideos>>

\* _play_video returns in thread i
PlayEnd(i) ==
    /\ i \in 1..Len(videos.threads)
    /\ videos.threads[i].stage = "finally"
    /\ videos' = VideosScreen_play_video_end(Videos, i)
    /\ UNCHANGED <<appVars, poolVars, screenVars, allButVideos>>

\* ---------------------------------------------------------------------------
\* The render loop: initial state and actions
\* ---------------------------------------------------------------------------

\* The events of a frame: a press and a release on the first card of the
\* videos, a press on the back button, QUIT, the Escape key and another key.
LoopEvents ==
    {[type |-> MOUSEBUTTONDOWN, pos |-> <<190, 160>>, key |-> "-"],
     [type |-> MOUSEBUTTONUP, pos |-> <<190, 160>>, key |-> "-"],
     [type |-> MOUSEBUTTONDOWN, pos |-> <<50, 50>>, key |-> "-"],
     [type |-> QUIT, pos |-> <<0, 0>>, key |-> "-"],
     [type |-> KEYDOWN, pos |-> <<0, 0>>, key |-> K_ESCAPE],
     [type |-> KEYDOWN, pos |-> <<0, 0>>, key |-> "K_SPACE"]}

\* The lists pygame.event.get() returns.
EventLists == UNION {[1..n -> LoopEvents] : n \in 0..MaxEvents}

Loop_init == loop = Loop_new

\* The router fields and the videos screen after the loop's call name with
\* result r.
LoopApp(name, r, s) ==
    /\ screens' = r.screens
    /\ state' = r.state
    /\ history' = r.history
    /\ app_log' = Log(name, NoArg, r)
    /\ videos' = IF InvokedOn(r.calls, "on_enter", VIDEOS) THEN VideosScreen_on_enter(s) ELSE s
    /\ UNCHANGED <<poolVars, screenVars, allButVideosLoop>>

\* The head of the loop: the clock ticks and the events are fetched
LoopTick(dt, events) ==
    /\ loop.pc = "tick"
    /\ loop' = Loop_tick(Loop, dt, events)
    /\ UNCHANGED <<appVars, poolVars, screenVars, videos, allButVideosLoop>>

\* The body of the for loop for one event: the program ends, or the event
\* goes to the router and on to the screen (the main menu keeps what it
\* does with it to itself)
LoopEvent ==
    /\ loop.pc = "events"
    /\ loop.next <= Len(loop.fetched)
    /\ loop' = Loop_event(Loop)
    /\ IF loop'.pc = "exit"
       THEN UNCHANGED <<appVars, poolVars, screenVars, videos, allButVideosLoop>>
       ELSE LET d == App_handle_event(App)
                r == IF InvokedOn(d.calls, "handle_event", VIDEOS)
                     THEN VideosScreen_handle_event(Videos, App, loop.fetched[loop.next])
                     ELSE [screen |-> Videos,
                           app |-> Result(screens, state, history, <<>>, NoError)]
            IN  LoopApp("handle_event",
                        Result(r.app.screens, r.app.state, r.app.history,
                               d.calls \o r.app.calls, r.app.raised),
                        r.screen)

\* app.update(dt) after the last event; on the main menu the pending
\* navigation to the videos fires or not
LoopUpdate(navigate) ==
    /\ loop.pc = "events"
    /\ loop.next > Len(loop.fetched)
    /\ loop' = Loop_update(Loop)
    /\ LET d == App_update(App)
           r == IF InvokedOn(d.calls, "update", MAIN_MENU) /\ navigate
                THEN App_go_to(App, VIDEOS)
                ELSE Result(screens, state, history, <<>>, NoError)
           s == IF InvokedOn(d.calls, "update", VIDEOS)
                THEN VideosScreen_update(Videos, loop.dt)
                ELSE Videos
       IN  LoopApp("update",
                   Result(r.screens, r.state, r.history, d.calls \o r.calls, r.raised), s)

\* app.draw(screen) and pygame.display.flip()
LoopDraw ==
    /\ loop.pc = "draw"
    /\ loop' = Loop_draw(Loop)
    /\ LET d == App_draw(App)
       IN  LoopApp("draw", d, IF InvokedOn(d.calls, "draw", VIDEOS)
                              THEN VideosScreen_draw(Videos) ELSE Videos)

\* ---------------------------------------------------------------------------
\* The menus (src/screens/main_menu.py, src/screens/games_menu.py) and the
\* navigation of the application.  main.py computes dt as
\* clock.tick(FPS) / 1000.0, a whole number of milliseconds, and the model
\* keeps dt and the timer of a pending navigation in milliseconds.  The
\* timer is a Python float: after `timer -= dt` it differs from the exact
\* difference by a rounding error far below a millisecond, of either sign or
\* none (0.12 - 12 * 0.01 is above zero, 0.12 - 0.005 - 0.053 - 0.043 - 0.019
\* is below).  The model keeps the sign of that error (err) beside the
\* milliseconds (ms) and draws it anew at every subtraction.
\*
\* Of the main menu the model keeps pending_nav; press, time, the blobs, the
\* letters, the floating shapes and the finger trail only reach the display,
\* and the y of the three buttons, which update animates from enter_timer
\* while they slide in, are an input of the event.  Of the games menu the
\* model keeps pending_nav and back_rect.  Of every other screen it keeps back_rect; the
\* conditions under which such a screen lets an event through to its back
\* button (celebrating, playing, the toolbar, event.button) and under which
\* the shows screen reads a release as a swipe to the left are inputs.
\* ---------------------------------------------------------------------------

\* The delay of a navigation, 0.12 s.
NAV_DELAY == 120

Timer(ms, err) == [ms |-> ms, err |-> err]

\* The signs of the rounding error of a float.
RoundingErrors == {-1, 0, 1}

\* timer -= dt
Timer_sub(t, dt, err) == Timer(t.ms - dt, err)

\* timer <= 0
TimerUp(t) == t.ms < 0 \/ (t.ms = 0 /\ t.err <= 0)

\* The index of the first rect of the list that holds pos, 0 when none does.
RECURSIVE HitFrom(_, _, _)
HitFrom(rects, pos, i) ==
    IF i > Len(rects) THEN 0
    ELSE IF Rect_collidepoint(rects[i], pos[1], pos[2]) THEN i
    ELSE HitFrom(rects, pos, i + 1)

HitIndex(rects, pos) == HitFrom(rects, pos, 1)

\* What a screen method hands back when it leaves the router alone.
Idle(a) == Result(a.screens, a.state, a.history, <<>>, NoError)

\* MainMenuScreen.__init__
MainMenuScreen_new == [pending_nav |-> None]

MainMenuScreen_states == <<GAMES_MENU, SHOWS, VIDEOS>>

\* self.buttons when the buttons are at ys
MainMenuScreen_buttons(ys) == [i \in 1..3 |-> Rect((WIDTH - 500) \div 2, ys[i], 500, 100)]

\* The y of the buttons: self.btn_targets_y, where they rest, and start_y,
\* where they wait below the screen while enter_timer is under their delay.
MainMenuScreen_ys ==
    {<<330, 455, 580>>, <<HEIGHT + 60, HEIGHT + 120, HEIGHT + 180>>}

\* MainMenuScreen.on_enter
MainMenuScreen_on_enter(s) == [s EXCEPT !.pending_nav = None]

\* MainMenuScreen.handle_event with the buttons at ys
MainMenuScreen_handle_event(s, ys, ev) ==
    LET i == HitIndex(MainMenuScreen_buttons(ys), ev.pos)
    IN  IF ev.type = MOUSEBUTTONDOWN /\ i > 0
        THEN [s EXCEPT !.pending_nav = [state |-> MainMenuScreen_states[i],
                                        timer |-> Timer(NAV_DELAY, 0)]]
        ELSE s

\* `if self.pending_nav:` ... of the update of a menu: the screen and what
\* the router did.
Menu_navigate(s, a, dt, err) ==
    IF s.pending_nav # None
    THEN LET timer == Timer_sub(s.pending_nav.timer, dt, err)
         IN  IF TimerUp(timer)
             THEN [screen |-> [s EXCEPT !.pending_nav = None],
                   app |-> App_go_to(a, s.pending_nav.state)]
             ELSE [screen |-> [s EXCEPT !.pending_nav.timer = timer], app |-> Idle(a)]
    ELSE [screen |-> s, app |-> Idle(a)]

\* MainMenuScreen.update
MainMenuScreen_update(s, a, dt, err) == Menu_navigate(s, a, dt, err)

\* GamesMenuScreen.__init__
GamesMenuScreen_new == [back_rect |-> None, pending_nav |-> None]

GamesMenuScreen_states ==
    <<FINGER_PAINT, SHAPE_SORTER, MAGIC_GARDEN, FIREWORKS, PARTICLE_PLAYGROUND, WEATHER_TOY>>

\* self.cards
GamesMenuScreen_cards ==
    LET margin == 16
        top_y == BACK_BTN_MARGIN + BACK_BTN_SIZE + 10
        gap == 14
        col_w == (WIDTH - 2 * margin - gap) \div 2
        row_h == (HEIGHT - top_y - margin - 2 * gap) \div 3
    IN  [k \in 1..6 |-> Rect(margin + ((k - 1) % 2) * (col_w + gap),
                             top_y + ((k - 1) \div 2) * (row_h + gap), col_w, row_h)]

\* Mutant of GamesMenuScreen_on_enter: the pending navigation is kept.
GamesMenuScreen_on_enter_keeps(s) == s

\* GamesMenuScreen.on_enter
GamesMenuScreen_on_enter(s) == [s EXCEPT !.pending_nav = None]

\* Mutant of GamesMenuScreen_handle_event: the back button goes to the main
\* menu with go_to.
GamesMenuScreen_handle_event_goes_to(s, a, ev) ==
    LET i == HitIndex(GamesMenuScreen_cards, ev.pos)
    IN  IF ev.type # MOUSEBUTTONDOWN THEN [screen |-> s, app |-> Idle(a)]
        ELSE IF s.back_rect # None /\ Rect_collidepoint(s.back_rect, ev.pos[1], ev.pos[2])
        THEN [screen |-> s, app |-> App_go_to(a, MAIN_MENU)]
        ELSE IF i > 0
        THEN [screen |-> [s EXCEPT !.pending_nav = [state |-> GamesMenuScreen_states[i],
                                                    timer |-> Timer(NAV_DELAY, 0)]],
              app |-> Idle(a)]
        ELSE [screen |-> s, app |-> Idle(a)]

\* GamesMenuScreen.handle_event: the screen and what the router did.
GamesMenuScreen_handle_event(s, a, ev) ==
    LET i == HitIndex(GamesMenuScreen_cards, ev.pos)
    IN  IF ev.type # MOUSEBUTTONDOWN THEN [screen |-> s, app |-> Idle(a)]
        ELSE IF s.back_rect # None /\ Rect_collidepoint(s.back_rect, ev.pos[1], ev.pos[2])
        THEN [screen |-> s, app |-> App_go_back(a)]
        ELSE IF i > 0
        THEN [screen |-> [s EXCEPT !.pending_nav = [state |-> GamesMenuScreen_states[i],
                                                    timer |-> Timer(NAV_DELAY, 0)]],
              app |-> Idle(a)]
        ELSE [screen |-> s, app |-> Idle(a)]

\* GamesMenuScreen.update
GamesMenuScreen_update(s, a, dt, err) == Menu_navigate(s, a, dt, err)

\* GamesMenuScreen.draw: what it leaves in the object is back_rect.
GamesMenuScreen_draw(s) == [s EXCEPT !.back_rect = draw_back_button]

\* The two menus, and the screens with a back button and no menu.
MenuIds == {MAIN_MENU, GAMES_MENU}
Leaves ==
    {FINGER_PAINT, SHAPE_SORTER, MAGIC_GARDEN, FIREWORKS, PARTICLE_PLAYGROUND,
     WEATHER_TOY, SHOWS, REMOTE, VIDEOS}

\* The back_rect a screen tests a press against: the finger paint builds the
\* rect in its handler, every other screen keeps the one its draw returned.
Leaf_back_rect(rects, id) == IF id = FINGER_PAINT THEN draw_back_button ELSE rects[id]

\* handle_event of a screen other than a menu, as far as the router goes: a
\* press on the back button that the screen lets through goes back, and a
\* release that the shows screen reads as a swipe to the left goes to the
\* remote.
Leaf_handle_event(rects, a, ev, through, swipe) ==
    LET rect == Leaf_back_rect(rects, a.state)
    IN  IF /\ ev.type = MOUSEBUTTONDOWN
           /\ through
           /\ rect # None
           /\ Rect_collidepoint(rect, ev.pos[1], ev.pos[2])
        THEN App_go_back(a)
        ELSE IF a.state = SHOWS /\ ev.type = MOUSEBUTTONUP /\ swipe
        THEN App_go_to(a, REMOTE)
        ELSE Idle(a)

\* draw of a screen other than a menu: what it leaves in the object is
\* back_rect.
Leaf_draw(rects, id) ==
    IF id \in DOMAIN rects THEN [rects EXCEPT ![id] = draw_back_button] ELSE rects

\* ---------------------------------------------------------------------------
\* The navigation: initial state and actions
\* ---------------------------------------------------------------------------

\* History of the menus: discarded tells that a menu was entered with a
\* navigation armed by a tap of an earlier visit.  History of a menu: whether a button or card was tapped since the menu was
\* entered, the target of the last tap, the milliseconds the updates of the
\* menu were called with since (counted up to NAV_DELAY), and the
\* navigations of the menu since.
NoTap == [tapped |-> FALSE, target |-> NoArg, since |-> 0, fired |-> 0]

Menus_new ==
    [main |-> MainMenuScreen_new,
     games |-> GamesMenuScreen_new,
     back_rect |-> [id \in Leaves \ {FINGER_PAINT} |-> None],
     taps |-> [id \in MenuIds |-> NoTap],
     discarded |-> FALSE]

Menus_init == menus = Menus_new

\* The presses and releases of the navigation: on the three buttons of the
\* main menu at rest, on the first and the fourth card of the games menu, on
\* the back button, and a release.
NavEvents ==
    {[type |-> MOUSEBUTTONDOWN, pos |-> <<360, 380>>],
     [type |-> MOUSEBUTTONDOWN, pos |-> <<360, 505>>],
     [type |-> MOUSEBUTTONDOWN, pos |-> <<360, 630>>],
     [type |-> MOUSEBUTTONDOWN, pos |-> <<184, 200>>],
     [type |-> MOUSEBUTTONDOWN, pos |-> <<535, 404>>],
     [type |-> MOUSEBUTTONDOWN, pos |-> <<50, 50>>],
     [type |-> MOUSEBUTTONUP, pos |-> <<100, 400>>]}

\* What an event meets on screen id: the main menu its buttons at rest or
\* below the screen, a screen with a back button its conditions to let the
\* event through, the shows screen a gesture that is a swipe to the left or
\* none.
NavInputs(id) ==
    [ys : IF id = MAIN_MENU THEN MainMenuScreen_ys ELSE {<<330, 455, 580>>},
     through : IF id \in Leaves THEN BOOLEAN ELSE {TRUE},
     swipe : IF id = SHOWS THEN BOOLEAN ELSE {FALSE}]

\* The frame deltas of the navigation, in milliseconds.
NavDts == {60, 120}

\* The menus after the on_enter calls among calls; a menu that is entered
\* starts a visit without a tap.
Menus_entered(m, calls) ==
    LET m1 == IF InvokedOn(calls, "on_enter", MAIN_MENU)
              THEN [m EXCEPT !.main = MainMenuScreen_on_enter(@),
                             !.taps[MAIN_MENU] = NoTap,
                             !.discarded = @ \/ m.main.pending_nav # None]
              ELSE m
    IN  IF InvokedOn(calls, "on_enter", GAMES_MENU)
        THEN [m1 EXCEPT !.games = GamesMenuScreen_on_enter(@),
                        !.taps[GAMES_MENU] = NoTap,
                        !.discarded = @ \/ m.games.pending_nav # None]
        ELSE m1

\* The router fields and the menus after a call with result r, m being the
\* menus as the screen that was called left them.
NavApp(name, arg, r, m) ==
    /\ screens' = r.screens
    /\ state' = r.state
    /\ history' = r.history
    /\ app_log' = Log(name, arg, r)
    /\ menus' = Menus_entered(m, r.calls)
    /\ UNCHANGED <<poolVars, screenVars, allButMenus>>

\* The history of a menu after an event that left pending_nav as p: a tap
\* that armed a navigation starts it anew.
Tapped(tap, armed, p) ==
    IF armed THEN [tapped |-> TRUE, target |-> p.state, since |-> 0, fired |-> 0] ELSE tap

\* The history of a menu after an update with dt that made the router calls
\* of r.
Updated(tap, dt, r) ==
    [tap EXCEPT !.since = IF tap.tapped THEN Min(@ + dt, NAV_DELAY) ELSE @,
                !.fired = IF r.history # history THEN Min(@ + 1, 2) ELSE @]

\* app.handle_event(event), the event meeting in on the screen
NavEvent(ev, in) ==
    LET d == App_handle_event(App)
        joined(r) == Result(r.screens, r.state, r.history, d.calls \o r.calls, r.raised)
    IN  /\ d.calls # <<>>
        /\ CASE state = MAIN_MENU ->
                  LET s == MainMenuScreen_handle_event(menus.main, in.ys, ev)
                      armed == /\ ev.type = MOUSEBUTTONDOWN
                               /\ HitIndex(MainMenuScreen_buttons(in.ys), ev.pos) > 0
                  IN  NavApp("handle_event", NoArg, joined(Idle(App)),
                             [menus EXCEPT !.main = s,
                                           !.taps[MAIN_MENU] = Tapped(@, armed, s.pending_nav)])
             [] state = GAMES_MENU ->
                  LET r == GamesMenuScreen_handle_event(menus.games, App, ev)
                      armed == /\ ev.type = MOUSEBUTTONDOWN
                               /\ r.app.history = history
                               /\ HitIndex(GamesMenuScreen_cards, ev.pos) > 0
                  IN  NavApp("handle_event", NoArg, joined(r.app),
                             [menus EXCEPT !.games = r.screen,
                                           !.taps[GAMES_MENU] =
                                               Tapped(@, armed, r.screen.pending_nav)])
             [] OTHER ->
                  NavApp("handle_event", NoArg,
                         joined(Leaf_handle_event(menus.back_rect, App, ev, in.through, in.swipe)),
                         menus)

\* app.update(dt)
NavUpdate(dt, err) ==
    LET d == App_update(App)
        joined(r) == Result(r.screens, r.state, r.history, d.calls \o r.calls, r.raised)
    IN  /\ d.calls # <<>>
        /\ CASE state = MAIN_MENU ->
                  LET r == MainMenuScreen_update(menus.main, App, dt, err)
                  IN  NavApp("update", NoArg, joined(r.app),
                             [menus EXCEPT !.main = r.screen,
                                           !.taps[MAIN_MENU] = Updated(@, dt, r.app)])
             [] state = GAMES_MENU ->
                  LET r == GamesMenuScreen_update(menus.games, App, dt, err)
                  IN  NavApp("update", NoArg, joined(r.app),
                             [menus EXCEPT !.games = r.screen,
                                           !.taps[GAMES_MENU] = Updated(@, dt, r.app)])
             [] OTHER -> NavApp("update", NoArg, d, menus)

\* app.draw(surface)
NavDraw ==
    LET d == App_draw(App)
    IN  /\ d.calls # <<>>
        /\ NavApp("draw", NoArg, d,
                  IF state = GAMES_MENU
                  THEN [menus EXCEPT !.games = GamesMenuScreen_draw(@)]
                  ELSE [menus EXCEPT !.back_rect = Leaf_draw(@, state)])

\* ---------------------------------------------------------------------------
\* src/screens/fireworks.py: FireworksScreen.  The model keeps the rockets
\* (position, target and speed; the model numbers them) and back_rect; the
\* stars, the trail particles and the particles of the explosions only reach
\* the display, so of the explosions the model keeps where _spawn_explosion
\* was called in the last update.  Lengths are whole pixels, speeds pixels per
\* second and dt milliseconds.
\* ---------------------------------------------------------------------------

\* `if dist < 10`
DETONATION_RADIUS == 10

\* What the screen did last and the explosions it spawned doing it.
FireworksLog(op, spawned) == [op |-> op, spawned |-> spawned]

\* FireworksScreen.__init__
FireworksScreen_new ==
    [rockets |-> <<>>, back_rect |-> None, log |-> FireworksLog("init", <<>>)]

\* The screen object of the current state.
Fireworks == fireworks

\* FireworksScreen.on_enter
FireworksScreen_on_enter(s) ==
    [s EXCEPT !.rockets = <<>>, !.log = FireworksLog("on_enter", <<>>)]

\* The least number no rocket in flight has.
FreeId(rockets) ==
    CHOOSE id \in 1..(Len(rockets) + 1) : \A k \in 1..Len(rockets) : rockets[k].id # id

\* FireworksScreen._launch_rocket; speed is random.uniform(500, 650).
FireworksScreen_launch_rocket(s, tx, ty, speed) ==
    [s EXCEPT !.rockets = Append(@, [x |-> WIDTH \div 2, y |-> HEIGHT,
                                     tx |-> tx, ty |-> Min(ty, HEIGHT - 80),
                                     speed |-> speed, id |-> FreeId(s.rockets)]),
              !.log = FireworksLog("launch", <<>>)]

\* FireworksScreen.handle_event: the screen after the event and what the
\* router did, if the event reached the back button.
FireworksScreen_handle_event(s, a, ev, speed) ==
    IF ev.type = MOUSEBUTTONDOWN /\ ev.button = 1
    THEN IF s.back_rect # None /\ Rect_collidepoint(s.back_rect, ev.pos[1], ev.pos[2])
         THEN [screen |-> s, app |-> App_go_back(a)]
         ELSE [screen |-> FireworksScreen_launch_rocket(s, ev.pos[1], ev.pos[2], speed),
               app |-> Idle(a)]
    ELSE [screen |-> s, app |-> Idle(a)]

\* math.hypot(dx, dy) where it is a whole number.
Hypot(dx, dy) == CHOOSE d \in 0..(WIDTH + HEIGHT) : d * d = dx * dx + dy * dy

\* `dist < 10` of _update_rockets: the rocket explodes in this update.
Detonates(r) == HypotLess(r.tx - r.x, r.ty - r.y, DETONATION_RADIUS)

\* The rocket after `r["x"] += vx * dt; r["y"] += vy * dt`, the velocity
\* having the rocket's speed and pointing at the target.
Rocket_move(r, dt) ==
    LET dx == r.tx - r.x
        dy == r.ty - r.y
        dist == Hypot(dx, dy)
    IN  [r EXCEPT !.x = @ + (dx * r.speed * dt) \div (dist * 1000),
                  !.y = @ + (dy * r.speed * dt) \div (dist * 1000)]

\* The rockets left by the loop of _update_rockets and the removal of
\* to_remove, and the places of the explosions spawned, in order.
RECURSIVE UpdateRockets(_, _)
UpdateRockets(rockets, dt) ==
    IF rockets = <<>> THEN [rockets |-> <<>>, spawned |-> <<>>]
    ELSE LET r == Head(rockets)
             rest == UpdateRockets(Tail(rockets), dt)
         IN  IF Detonates(r)
             THEN [rockets |-> rest.rockets,
                   spawned |-> <<[x |-> r.x, y |-> r.y, id |-> r.id]>> \o rest.spawned]
             ELSE [rockets |-> <<Rocket_move(r, dt)>> \o rest.rockets,
                   spawned |-> rest.spawned]

\* FireworksScreen.update
FireworksScreen_update(s, dt) ==
    LET u == UpdateRockets(s.rockets, dt)
    IN  [s EXCEPT !.rockets = u.rockets, !.log = FireworksLog("update", u.spawned)]

\* FireworksScreen.draw: what it leaves in the object is back_rect.
FireworksScreen_draw(s) ==
    [s EXCEPT !.back_rect = draw_back_button, !.log = FireworksLog("draw", <<>>)]

\* ---------------------------------------------------------------------------
\* The fireworks inside the application: initial state and actions
\* ---------------------------------------------------------------------------

\* The speeds random.uniform(500, 650) draws.
RocketSpeeds == {500, 650}

\* The frame deltas of the fireworks, in milliseconds: 50 and 25 frames per
\* second.
FireworksDts == {20, 40}

\* The events of the fireworks: presses straight above the launch point, on
\* the lowest target and below it, a press on the back button, the right
\* button and a release.
FireworksEvents ==
    {[type |-> MOUSEBUTTONDOWN, pos |-> <<WIDTH \div 2, HEIGHT - 80>>, button |-> 1],
     [type |-> MOUSEBUTTONDOWN, pos |-> <<WIDTH \div 2, 700>>, button |-> 1],
     [type |-> MOUSEBUTTONDOWN, pos |-> <<50, 50>>, button |-> 1],
     [type |-> MOUSEBUTTONDOWN, pos |-> <<WIDTH \div 2, 610>>, button |-> 3],
     [type |-> MOUSEBUTTONUP, pos |-> <<WIDTH \div 2, 610>>, button |-> 1]}

Fireworks_init == fireworks = FireworksScreen_new

\* The router fields after a call with result r made while the fireworks are
\* the part under study.
FireworksApp(name, arg, r) ==
    /\ screens' = r.screens
    /\ state' = r.state
    /\ history' = r.history
    /\ app_log' = Log(name, arg, r)
    /\ UNCHANGED <<poolVars, screenVars, allButFireworks>>

\* MainMenuScreen.update and GamesMenuScreen.update: the pending navigation
\* fires (to the games menu, and from there to the fireworks, whose on_enter
\* clears the rockets).
FireworksMenuGoTo ==
    /\ state \in {MAIN_MENU, GAMES_MENU}
    /\ LET target == IF state = MAIN_MENU THEN GAMES_MENU ELSE FIREWORKS
           r == App_go_to(App, target)
       IN  /\ FireworksApp("go_to", target, r)
           /\ fireworks' = IF InvokedOn(r.calls, "on_enter", FIREWORKS)
                           THEN FireworksScreen_on_enter(Fireworks)
                           ELSE fireworks

\* The press would launch a rocket.
LaunchesRocket(s, ev) ==
    /\ ev.type = MOUSEBUTTONDOWN /\ ev.button = 1
    /\ ~(s.back_rect # None /\ Rect_collidepoint(s.back_rect, ev.pos[1], ev.pos[2]))

\* app.handle_event(event) reaching the fireworks; the targets of the model
\* are straight above the launch point.
FireworksEvent(ev, speed) ==
    LET d == App_handle_event(App)
        r == FireworksScreen_handle_event(Fireworks, App, ev, speed)
    IN  /\ InvokedOn(d.calls, "handle_event", FIREWORKS)
        /\ LaunchesRocket(Fireworks, ev) =>
              /\ Len(fireworks.rockets) < MaxRockets
              /\ ev.pos[1] = WIDTH \div 2
        /\ FireworksApp("handle_event", NoArg,
                        Result(r.app.screens, r.app.state, r.app.history,
                               d.calls \o r.app.calls, r.app.raised))
        /\ fireworks' = r.screen

\* app.update(dt) reaching the fireworks
FireworksUpdate(dt) ==
    LET d == App_update(App)
    IN  /\ InvokedOn(d.calls, "update", FIREWORKS)
        /\ FireworksApp("update", NoArg, d)
        /\ fireworks' = FireworksScreen_update(Fireworks, dt)

\* app.draw(surface) reaching the fireworks
FireworksDraw ==
    LET d == App_draw(App)
    IN  /\ InvokedOn(d.calls, "draw", FIREWORKS)
        /\ FireworksApp("draw", NoArg, d)
        /\ fireworks' = FireworksScreen_draw(Fireworks)

\* ---------------------------------------------------------------------------
\* Specifications
\* ---------------------------------------------------------------------------

vars == <<screens, state, history, app_log, count, life, max_life, size,
          age, exact, pool_log, mode, palette, hue, touching, touch_x,
          touch_y, back_rect, rain_timer, toolbar, screen_log, body,
          sorter, weather, bubble, shows, remote, roku, videos, loop,
          menus, fireworks>>

\* Every part as constructed, apart from the router.
\* The parts that are constructed in one way only.
CoreParts_init ==
    /\ Pool_init
    /\ Screen_init
    /\ Body_init
    /\ Sorter_init
    /\ Weather_init
    /\ Shows_init
    /\ Remote_init
    /\ Videos_init
    /\ Loop_init
    /\ Menus_init
    /\ Fireworks_init

Parts_init ==
    /\ CoreParts_init
    /\ Bubble_init
    /\ Roku_init

Init ==
    /\ App_init
    /\ Parts_init

\* The router, called in any order with any ids.
Next ==
    \/ \E s \in States, screen \in ScreenObjects : Register(s, screen)
    \/ \E s \in States : GoTo(s)
    \/ GoBack
    \/ HandleEvent
    \/ Update
    \/ Draw

Spec == Init /\ [][Next]_vars

\* One pool, called in any order.
NextPool ==
    \/ \E plife \in Lifetimes, psize \in Sizes : PoolEmit(plife, psize)
    \/ \E dt \in Dts : PoolUpdate(dt)
    \/ PoolClear

SpecPool == Init /\ [][NextPool]_vars

\* The application as main.py builds it, on the path main menu -> games menu
\* -> particle playground and back.
InitPlayground ==
    /\ App_main
    /\ Parts_init

NextPlayground ==
    \/ MenuGoTo
    \/ MenuGoBack
    \/ \E ev \in PointerEvents : \E draws \in BurstDraws(mode, Pool, EventBurst(Screen, ev)) :
          PlaygroundEvent(ev, draws)
    \/ \E dt \in FrameDts : \E draws \in BurstDraws(mode, Pool, FrameBurst(Screen, dt)) :
          PlaygroundUpdate(dt, draws)
    \/ PlaygroundDraw

SpecPlayground == InitPlayground /\ [][NextPlayground]_vars

\* One pool with its kinematic arrays, called in any order.
NextMotion ==
    \/ \E l \in Launches : MotionEmit(l, l.life, l.size)
    \/ \E dt \in MotionDts, gravity \in Gravities : MotionUpdate(dt, gravity)
    \/ MotionClear

SpecMotion == Init /\ [][NextMotion]_vars

\* The application on the path main menu -> games menu -> shape sorter and
\* back.
NextSorter ==
    \/ \E starts \in StartDraws : SorterMenuGoTo(starts)
    \/ \E ev \in SorterEvents, plife \in SnapLives : SorterEvent(ev, plife)
    \/ \E dt \in SorterDts, starts \in StartDraws : SorterUpdate(dt, starts)
    \/ SorterDraw

SpecSorter == InitPlayground /\ [][NextSorter]_vars


\* The application on the path main menu -> games menu -> weather toy and
\* back.
NextWeather ==
    \/ WeatherMenuGoTo
    \/ \E ev \in WeatherEvents : WeatherEvent(ev)
    \/ \E dt \in WeatherDts : WeatherUpdate(dt)
    \/ WeatherDraw

SpecWeather == InitPlayground /\ [][NextWeather]_vars


\* The two bubble games, each called in any order; a handler that calls
\* spawn_bubble runs its loop to the end before the next handler starts.
InitBubbles ==
    /\ App_init
    /\ CoreParts_init
    /\ Games_init
    /\ Roku_init

\* The steps of a call of spawn_bubble.
SpawnStep ==
    \/ \E radius \in Radii(bubble.kind) : SpawnBegin(radius)
    \/ \E p \in Positions : SpawnAttempt(p)

NextBubbles ==
    \/ BubbleEnter
    \/ \E ev \in BubbleEvents, bob \in BobDraws(Len(bubble.bubbles)) : BubblePress(ev, bob)
    \/ BubbleUpdate
    \/ BubbleDraw
    \/ \E ev \in BubbleEvents \cup {QuitEvent} : BoxEvent(ev)
    \/ SpawnStep

\* A call of spawn_bubble keeps running once made.
SpecBubbles == InitBubbles /\ [][NextBubbles]_vars /\ WF_vars(SpawnStep)


\* The application on the path main menu -> shows -> remote and back, with
\* the threads of the Roku helper running beside it.
InitRemote ==
    /\ App_main
    /\ CoreParts_init
    /\ Bubble_init
    /\ Roku_either

NextRemote ==
    \/ RemoteMenuGoTo
    \/ \E ev \in ShowsEvents : ShowsEvent(ev)
    \/ \E dt \in PressDts : ShowsUpdate(dt)
    \/ ShowsDraw
    \/ \E ev \in RemoteEvents : RemoteEvent(ev)
    \/ \E dt \in PressDts : RemoteUpdate(dt)
    \/ RemoteDraw
    \/ \E i \in 1..MaxThreads : PostBegin(i)
    \/ \E i \in 1..MaxThreads, outcome \in Outcomes : PostEnd(i, outcome)

SpecRemote == InitRemote /\ [][NextRemote]_vars


\* The application on the path main menu -> videos and back, with the
\* threads playing the videos running beside it.
NextVideos ==
    \/ VideosMenuGoTo
    \/ \E ev \in VideosEvents : VideosEvent(ev)
    \/ \E dt \in PressDts : VideosUpdate(dt)
    \/ VideosDraw
    \/ \E i \in DOMAIN videos.threads, outcome \in PlayOutcomes : PlayRun(i, outcome)
    \/ \E i \in DOMAIN videos.threads : PlayEnd(i)

SpecVideos == InitPlayground /\ [][NextVideos]_vars

\* A step of a thread playing a video.
PlayStep ==
    \/ \E i \in DOMAIN videos.threads, outcome \in PlayOutcomes : PlayRun(i, outcome)
    \/ \E i \in DOMAIN videos.threads : PlayEnd(i)

\* The same with threads that go on: subprocess.run ends (at the latest
\* after the timeout of 30 minutes) and the thread runs to its end.
SpecVideosLive == SpecVideos /\ WF_vars(PlayStep)


\* main: the render loop on the path main menu -> videos and back, with the
\* threads playing the videos running beside it.
NextLoop ==
    \/ \E dt \in PressDts, events \in EventLists : LoopTick(dt, events)
    \/ LoopEvent
    \/ \E navigate \in BOOLEAN : LoopUpdate(navigate)
    \/ LoopDraw
    \/ \E i \in DOMAIN videos.threads, outcome \in PlayOutcomes : PlayRun(i, outcome)
    \/ \E i \in DOMAIN videos.threads : PlayEnd(i)

SpecLoop == InitPlayground /\ [][NextLoop]_vars


\* The application as main.py wires it, with every screen: the events, the
\* updates and the draws the render loop hands to the router, in any order.
NextNav ==
    \/ \E ev \in NavEvents : \E in \in NavInputs(state) : NavEvent(ev, in)
    \/ \E dt \in NavDts, err \in RoundingErrors : NavUpdate(dt, err)
    \/ NavDraw

SpecNav == InitPlayground /\ [][NextNav]_vars


\* The application on the path main menu -> games menu -> fireworks and
\* back; while the fireworks are the current screen the render loop keeps
\* updating them.
FireworksFrame == \E dt \in FireworksDts : FireworksUpdate(dt)

NextFireworks ==
    \/ FireworksMenuGoTo
    \/ \E ev \in FireworksEvents, speed \in RocketSpeeds : FireworksEvent(ev, speed)
    \/ FireworksFrame
    \/ FireworksDraw

SpecFireworks == InitPlayground /\ [][NextFireworks]_vars /\ WF_vars(FireworksFrame)


\* ---------------------------------------------------------------------------
\* Claims about the threads playing videos (checked under SpecLoop)
\* ---------------------------------------------------------------------------

\* C26: at most one playback unit is in flight at any time, and only with
\* the videos screen current and playing true; a unit is started only by an
\* event handed to the screen while none is in flight.
C26_OnePlaybackInFlight ==
    /\ [](/\ Len(videos.threads) <= 1
          /\ videos.threads # <<>> => (state = VIDEOS /\ videos.playing))
    /\ [][Len(videos'.threads) > Len(videos.threads) =>
              /\ videos.threads = <<>>
              /\ ~videos.playing
              /\ state = VIDEOS
              /\ app_log'.op.name = "handle_event"]_vars

\* C26 witness: a first playback has ended, a second one is in flight, and
\* the frame still has an event to hand to the screen.
C26_Witness ==
    /\ state = VIDEOS
    /\ videos.ended.clears = 1
    /\ Len(videos.threads) = 1
    /\ videos.threads[1].stage = "run"
    /\ loop.pc = "events"
    /\ loop.next <= Len(loop.fetched)

\* ---------------------------------------------------------------------------
\* Claims about the router (checked under Spec)
\* ---------------------------------------------------------------------------

Last(l) == l[Len(l)]
Front(l) == SubSeq(l, 1, Len(l) - 1)
Registered(s) == s \in DOMAIN screens
Hooked(s) == Registered(s) /\ screens[s].has_on_enter
LastOp == app_log.op.name
Before == app_log.before

\* C1: go_to(X) appends the pre-transition current id to the end of history
\* and sets current to X; go_back on a non-empty history sets current to the
\* last element of history and removes exactly that element; so go_to(X)
\* immediately followed by go_back() restores current and history exactly.
C1_StackDiscipline ==
    /\ LastOp = "go_to" =>
          /\ history = Append(Before.history, Before.state)
          /\ state = app_log.op.arg
    /\ (LastOp = "go_back" /\ Before.history # <<>>) =>
          /\ state = Last(Before.history)
          /\ history = Front(Before.history)
    /\ \A s \in States :
          LET r == App_go_back(App_go_to(App, s))
          IN  r.state = state /\ r.history = history /\ r.screens = screens

\* C1 witness: the end-to-end scenario, go_to(GAMES_MENU) from the root and
\* go_back(), has just ended on the root with an empty history.
C1_Witness ==
    /\ LastOp = "go_back"
    /\ Before = [state |-> GAMES_MENU, history |-> <<MAIN_MENU>>]
    /\ state = MAIN_MENU
    /\ history = <<>>

\* C2: go_back() on an empty history is a no-op: current and history are
\* unchanged, no screen method is invoked and nothing is raised, whatever
\* the registry holds.
C2_GoBackEmptyNoOp ==
    /\ (LastOp = "go_back" /\ Before.history = <<>>) =>
          /\ state = Before.state
          /\ history = <<>>
          /\ app_log.calls = <<>>
          /\ app_log.raised = NoError
    /\ history = <<>> =>
          App_go_back(App) = Result(screens, state, history, <<>>, NoError)

\* C2 witness: go_back() was called on the root with its screen registered.
C2_Witness ==
    /\ LastOp = "go_back"
    /\ Before.history = <<>>
    /\ Hooked(state)

\* C3 (as claimed): in every reachable router state current is a key of the
\* registry.
C3_CurrentAlwaysRegistered == Registered(state)

\* C3 (amended): current and every element of history is MAIN_MENU or an id
\* that was passed to go_to, so current is a registry key whenever MAIN_MENU
\* and every go_to target have been registered.
C3_CurrentRegisteredIfTargetsAre ==
    LET reached == {MAIN_MENU} \cup app_log.targets
    IN  /\ state \in reached
        /\ \A i \in 1..Len(history) : history[i] \in reached
        /\ reached \subseteq DOMAIN screens =>
              /\ Registered(state)
              /\ \A i \in 1..Len(history) : Registered(history[i])

\* C3 witness: after navigation among registered screens only, current is
\* a registered id other than the root.
C3_Witness ==
    /\ ({MAIN_MENU} \cup app_log.targets) \subseteq DOMAIN screens
    /\ Len(history) = 2
    /\ state # MAIN_MENU
    /\ LastOp = "go_to"

\* C4: with no screen registered for current, handle_event, update and draw
\* do nothing and raise nothing, and go_to / go_back towards an id with no
\* registered screen complete without error and without invoking a hook.
C4_MissingTargetIgnored ==
    /\ (LastOp \in {"handle_event", "update", "draw"} /\ ~Registered(state)) =>
          /\ app_log.calls = <<>>
          /\ app_log.raised = NoError
          /\ state = Before.state
          /\ history = Before.history
    /\ (LastOp \in {"go_to", "go_back"} /\ ~Registered(state)) =>
          /\ app_log.calls = <<>>
          /\ app_log.raised = NoError
    /\ ~Registered(state) =>
          \A hook \in {"handle_event", "update", "draw"} :
              App_dispatch(App, hook) = Result(screens, state, history, <<>>, NoError)

\* C4 witness: a frame was drawn while current was an unregistered id
\* reached by go_to.
C4_Witness ==
    /\ LastOp = "draw"
    /\ ~Registered(state)
    /\ state # MAIN_MENU
    /\ history # <<>>

\* C5: go_to(id) invokes on_enter of the screen registered for id exactly
\* once, after the push and the switch; go_back on a non-empty history
\* invokes on_enter of the restored screen exactly once, after the restore;
\* no other router call invokes on_enter; a screen without the hook is
\* entered without error.
C5_EnterHookProtocol ==
    /\ LastOp = "go_to" =>
          /\ app_log.calls =
                IF Hooked(state)
                THEN <<HookCall("on_enter", app_log.op.arg, app_log.op.arg,
                                Append(Before.history, Before.state))>>
                ELSE <<>>
          /\ app_log.raised = NoError
    /\ (LastOp = "go_back" /\ Before.history # <<>>) =>
          /\ app_log.calls =
                IF Hooked(state)
                THEN <<HookCall("on_enter", Last(Before.history), Last(Before.history),
                                Front(Before.history))>>
                ELSE <<>>
          /\ app_log.raised = NoError
    /\ (LastOp \notin {"go_to", "go_back"} \/ (LastOp = "go_back" /\ Before.history = <<>>)) =>
          \A i \in 1..Len(app_log.calls) : app_log.calls[i].hook # "on_enter"

\* C5 witness: go_back has just re-entered a screen that has the hook, from a
\* screen that was entered without one.
C5_Witness ==
    /\ LastOp = "go_back"
    /\ Before.history # <<>>
    /\ Hooked(state)
    /\ Registered(Before.state)
    /\ ~Hooked(Before.state)
    /\ Len(app_log.calls) = 1

\* ---------------------------------------------------------------------------
\* Claims about the particle pool (checked under SpecPool)
\* ---------------------------------------------------------------------------

LiveSlots == 0..(count - 1)

\* capacity consecutive emit calls with the same arguments: the pool after
\* them and the values they returned.
RECURSIVE EmitRun(_, _, _, _)
EmitRun(w, k, plife, psize) ==
    IF k = 0
    THEN [pool |-> w, rets |-> <<>>]
    ELSE LET r == EmitRun(w, k - 1, plife, psize)
             e == ParticlePool_emit(r.pool, plife, psize)
         IN  [pool |-> e.pool, rets |-> Append(r.rets, e.ret)]

\* C7: after any sequence of emit, update and clear calls 0 <= count <=
\* capacity; an emit on a full pool returns False, raises nothing and leaves
\* count and every stored particle unchanged.
C7_CapacityBound ==
    /\ count \in 0..Capacity
    /\ pool_log.raised = NoError
    /\ count >= Capacity =>
          \A plife \in Lifetimes, psize \in Sizes :
              LET r == ParticlePool_emit(Pool, plife, psize)
              IN  r.raised = NoError /\ r.ret = "False" /\ r.pool = Pool

\* C7 witness: an emit has just been refused by a full pool.
C7_Witness ==
    /\ pool_log.op = "emit"
    /\ pool_log.ret = "False"
    /\ count = Capacity

\* C8: emit returns True exactly when count < capacity held before the call,
\* and then stores the particle in slot count and increases count by one; so
\* capacity + 1 consecutive emits on an empty pool return False exactly once,
\* on the last call, and leave count = capacity.
C8_EmitReturnsTrueIffRoom ==
    \A plife \in Lifetimes, psize \in Sizes :
        /\ LET r == ParticlePool_emit(Pool, plife, psize)
           IN  /\ r.raised = NoError
               /\ (r.ret = "True") <=> (count < Capacity)
               /\ r.ret \in {"True", "False"}
               /\ r.ret = "True" =>
                     /\ r.pool.count = count + 1
                     /\ r.pool.life[count] = plife
                     /\ r.pool.max_life[count] = plife
                     /\ r.pool.size[count] = psize
                     /\ \A i \in Slots \ {count} :
                           /\ r.pool.life[i] = life[i]
                           /\ r.pool.max_life[i] = max_life[i]
                           /\ r.pool.size[i] = size[i]
               /\ r.ret = "False" => r.pool.count = count
        /\ LET run == EmitRun(ParticlePool_clear(Pool), Capacity + 1, plife, psize)
           IN  /\ run.rets = [k \in 1..(Capacity + 1) |-> IF k <= Capacity THEN "True" ELSE "False"]
               /\ run.pool.count = Capacity

\* C8 witness: an emit into the last free slot has just succeeded.
C8_Witness ==
    /\ pool_log.op = "emit"
    /\ pool_log.ret = "True"
    /\ count = Capacity

\* C9: after every update call every particle of the live region, which is
\* exactly what draw renders, has life > 0; a particle whose life reached
\* <= 0 during the update is not rendered by a draw that follows.
C9_NoZombies ==
    /\ pool_log.op = "update" => \A i \in LiveSlots : life[i] > 0
    /\ \A dt \in Dts :
          LET r == ParticlePool_update(Pool, dt)
              drawn == ParticlePool_draw(r.pool)
          IN  /\ Len(drawn) = r.pool.count
              /\ \A k \in 1..Len(drawn) : drawn[k].life > 0 /\ drawn[k].slot = k - 1
              /\ \A k \in 1..Len(r.removed) : r.removed[k].life <= 0
              /\ r.pool.count = count - Len(r.removed)

\* C9 witness: an update has just removed a particle and kept another.
C9_Witness ==
    /\ pool_log.op = "update"
    /\ Len(pool_log.removed) >= 1
    /\ count >= 1

\* The pool refilled: cleared, then capacity particles of lifetime plife.
Refilled(plife) == EmitRun(ParticlePool_clear(Pool), Capacity, plife, 3).pool

\* C10 (as claimed): a particle emitted with lifetime L is removed by the
\* first update at which the cumulative dt since its emission is >= L, and
\* by no earlier update.
C10_ExpiryAtCumulativeDt ==
    /\ pool_log.op = "update" => \A i \in LiveSlots : age[i] < max_life[i]
    /\ \A k \in 1..Len(pool_log.removed) :
          pool_log.removed[k].age >= pool_log.removed[k].max_life

\* C10 (amended): a particle is removed by the first update that leaves its
\* stored life <= 0 (exactly 0 counts as dead) and by no earlier one; as long
\* as the subtractions life -= dt are free of rounding the stored life is
\* L minus the cumulative dt, so that update is the first at which the
\* cumulative dt is >= L; a pool full of particles of lifetime 1.0 is empty
\* after two update(0.5) calls and not after one; a particle emitted with
\* lifetime <= 0 is accepted and is gone after the next update.
C10_ExpiryExactWithoutRounding ==
    /\ \A i \in LiveSlots : exact[i] => life[i] = max_life[i] - age[i]
    /\ pool_log.op = "update" =>
          /\ \A i \in LiveSlots : life[i] > 0 /\ max_life[i] > 0
          /\ \A i \in LiveSlots : exact[i] => age[i] < max_life[i]
    /\ \A k \in 1..Len(pool_log.removed) :
          LET p == pool_log.removed[k]
          IN  /\ p.life <= 0
              /\ p.exact => (p.age >= p.max_life /\ p.life = p.max_life - p.age)
              /\ (p.exact /\ p.max_life > 0) => p.age - pool_log.dt < p.max_life
    /\ LET once == ParticlePool_update(Refilled(10), 5).pool
           twice == ParticlePool_update(once, 5).pool
       IN  once.count = Capacity /\ twice.count = 0
    /\ \A plife \in {l \in Lifetimes : l <= 0}, dt \in Dts :
          /\ Refilled(plife).count = Capacity
          /\ ParticlePool_update(Refilled(plife), dt).pool.count = 0

\* C10 witness: an update has just emptied a full pool of particles whose
\* life reached exactly 0, the cumulative dt being exactly their lifetime.
C10_Witness ==
    /\ pool_log.op = "update"
    /\ count = 0
    /\ Len(pool_log.removed) = Capacity
    /\ \A k \in 1..Len(pool_log.removed) :
          LET p == pool_log.removed[k]
          IN  p.exact /\ p.max_life = 10 /\ p.age = 10 /\ p.life = 0

\* C30 (as claimed): after any sequence of emit, update and clear calls,
\* every particle in the live region satisfies 0 <= life <= max_life.
C30_LifeWithinRange == \A i \in LiveSlots : 0 <= life[i] /\ life[i] <= max_life[i]

\* C30 (amended): every particle in the live region satisfies
\* life <= max_life, and 0 < life after an update; emit stores any lifetime
\* unchecked, so 0 <= life holds for the particles emitted with a lifetime
\* >= 0, and a particle emitted with a lifetime < 0 stays in the live region
\* with life = max_life < 0 until the next update removes it.
C30_LifeWithinRangeOfEmitted ==
    /\ \A i \in LiveSlots :
          /\ life[i] <= max_life[i]
          /\ max_life[i] >= 0 => life[i] >= 0
          /\ life[i] < 0 => life[i] = max_life[i]
    /\ pool_log.op = "update" => \A i \in LiveSlots : life[i] > 0
    /\ \A k \in 1..Len(pool_log.removed) :
          pool_log.removed[k].max_life < 0 => pool_log.removed[k].age = pool_log.dt

\* C30 witness: an update has just removed a particle that was emitted with
\* a negative lifetime and has left a particle partway through its life.
C30_Witness ==
    /\ pool_log.op = "update"
    /\ \E k \in 1..Len(pool_log.removed) : pool_log.removed[k].max_life < 0
    /\ \E i \in LiveSlots : 0 < life[i] /\ life[i] < max_life[i]

\* ---------------------------------------------------------------------------
\* Claims about the enter hook of the playground (checked under
\* SpecPlayground)
\* ---------------------------------------------------------------------------

\* The last method of the playground screen that ran is on_enter.
Entered == screen_log.op = "on_enter"

\* C6 -- enter-hook reset contract, for the particle playground: right after
\* on_enter the transient per-visit state is the one the screen was built
\* with, whatever happened during earlier visits: the pool is empty, the
\* rain timer is zero, touching is false, mode and palette are the defaults,
\* and the toolbar's scroll offset, velocity and drag flags have their
\* initial values.  on_enter leaves the toolbar alone, so the velocity and
\* the drag flags of the previous visit are still there.
C6_EnterResetsTransientState ==
    Entered =>
        /\ count = ParticlePlaygroundScreen_new.pool.count
        /\ rain_timer = ParticlePlaygroundScreen_new.rain_timer
        /\ touching = ParticlePlaygroundScreen_new.touching
        /\ mode = ParticlePlaygroundScreen_new.mode
        /\ palette = ParticlePlaygroundScreen_new.palette
        /\ toolbar.scroll_x = PlaygroundToolbar.scroll_x
        /\ toolbar.velocity = PlaygroundToolbar.velocity
        /\ toolbar.dragging = PlaygroundToolbar.dragging
        /\ toolbar.was_drag = PlaygroundToolbar.was_drag

\* C6 witness: the playground is entered again from the games menu after a
\* visit in which the toolbar strip was dragged and released.
C6_Witness ==
    /\ Entered
    /\ app_log.op.name = "go_to"
    /\ state = PARTICLE_PLAYGROUND
    /\ back_rect # None
    /\ toolbar.was_drag
    /\ ~toolbar.dragging
    /\ toolbar.velocity # 0

\* ---------------------------------------------------------------------------
\* Claims about the motion of the particles (checked under SpecMotion)
\* ---------------------------------------------------------------------------

\* The pool after update(dt, gravity) called in the current state.
Moved(dt, gravity) == ParticlePool_update_motion(Motion, dt, gravity)

\* The particle in slot o integrated by hand, velocity first: before any wall
\* is looked at.
Advanced(o, dt, gravity) ==
    LET vy1 == body.vy[o] + TimesDt(Px(gravity), dt)
    IN  [x |-> body.x[o] + TimesDt(body.vx[o], dt),
         y |-> body.y[o] + TimesDt(vy1, dt),
         vx |-> body.vx[o],
         vy |-> vy1]

\* The point lies beyond no wall.
Inside(p) ==
    /\ 0 <= p.x /\ p.x <= Px(WIDTH - 1)
    /\ Px(TOOLBAR_H) <= p.y /\ p.y <= Px(HEIGHT - 1)

\* The survivors of an update are particles that were live, each one once.
SurvivorsAreDistinct(k) ==
    /\ \A i \in Slots : i < k.count => k.origin[i] \in LiveSlots
    /\ \A i, j \in Slots : (i < j /\ j < k.count) => k.origin[i] # k.origin[j]

\* C11 -- integration order: for every pool that can be reached and every
\* update(dt, gravity), a surviving particle that touches no wall has
\* vy' = vy + gravity*dt, x' = x + vx*dt and y' = y + vy'*dt (the new
\* velocity moves it); with zero initial velocity, dt = 1 and gravity = 10
\* this is vy' = 10 and y' = y + 10.
C11_VelocityThenPosition ==
    \A dt \in MotionDts, gravity \in Gravities :
        LET k == Moved(dt, gravity)
        IN  /\ SurvivorsAreDistinct(k)
            /\ \A i \in Slots :
                   (i < k.count /\ Inside(Advanced(k.origin[i], dt, gravity))) =>
                       LET o == k.origin[i]
                           p == Advanced(o, dt, gravity)
                       IN  /\ BodyOf(k, i) = p
                           /\ k.vy[i] = body.vy[o] + TimesDt(Px(gravity), dt)
                           /\ k.y[i] = body.y[o] + TimesDt(k.vy[i], dt)
                           /\ (body.vx[o] = 0 /\ body.vy[o] = 0 /\ dt = 10 /\ gravity = 10) =>
                                  (k.vy[i] = Px(10) /\ k.y[i] = body.y[o] + Px(10))

\* C11 witness: an update of one second under gravity 10 has moved a particle
\* emitted at rest at (360, 360) to (360, 370) with vy = 10.
C11_Witness ==
    /\ pool_log.op = "update"
    /\ pool_log.dt = 10
    /\ \E i \in LiveSlots :
           /\ body.x[i] = Px(360) /\ body.y[i] = Px(370)
           /\ body.vx[i] = 0 /\ body.vy[i] = Px(10)

\* C12 -- boundary response: for every pool that can be reached and every
\* update(dt, gravity), a surviving particle whose integrated position lies
\* beyond a wall (x < 0, x > WIDTH-1, y > HEIGHT-1, y < TOOLBAR_H) has that
\* coordinate set to the wall's and the velocity component normal to the
\* wall set to -0.6 times its value; a coordinate that is beyond no wall and
\* its velocity component keep their integrated values.
C12_BoundaryResponse ==
    \A dt \in MotionDts, gravity \in Gravities :
        LET k == Moved(dt, gravity)
        IN  \A i \in Slots :
                i < k.count =>
                    LET p == Advanced(k.origin[i], dt, gravity)
                    IN  /\ p.x < 0 => (k.x[i] = 0 /\ 10 * k.vx[i] = -6 * p.vx)
                        /\ p.x > Px(WIDTH - 1) =>
                               (k.x[i] = Px(WIDTH - 1) /\ 10 * k.vx[i] = -6 * p.vx)
                        /\ (0 <= p.x /\ p.x <= Px(WIDTH - 1)) =>
                               (k.x[i] = p.x /\ k.vx[i] = p.vx)
                        /\ p.y > Px(HEIGHT - 1) =>
                               (k.y[i] = Px(HEIGHT - 1) /\ 10 * k.vy[i] = -6 * p.vy)
                        /\ p.y < Px(TOOLBAR_H) =>
                               (k.y[i] = Px(TOOLBAR_H) /\ 10 * k.vy[i] = -6 * p.vy)
                        /\ (Px(TOOLBAR_H) <= p.y /\ p.y <= Px(HEIGHT - 1)) =>
                               (k.y[i] = p.y /\ k.vy[i] = p.vy)

\* C12 witness: an update has put on the left wall a particle emitted at
\* (1, 360) with velocity (-10, 0): x = 0, vx = 6, and the tangential vy = 10
\* that gravity gave it.
C12_Witness ==
    /\ pool_log.op = "update"
    /\ \E i \in LiveSlots :
           /\ body.x[i] = 0 /\ body.vx[i] = Px(6)
           /\ body.y[i] = Px(370) /\ body.vy[i] = Px(10)

\* The slots whose particle is alive after one `life[i] -= dt`.
Outliving(dt) == {o \in LiveSlots : life[o] - dt > 0}

\* C21 -- swap-remove processes every particle once: for every pool that can
\* be reached and every update(dt, gravity), the survivors are exactly the
\* particles live at the call with life - dt > 0, each of them once, in the
\* slots 0..count-1; the life of a survivor is its life at the call after one
\* subtraction of dt, its max_life, size and colour are its own, and its
\* position and velocity are its own, integrated once.  The three arrays
\* life, max_life and size come out the same from the loop that carries them
\* alone.
C21_EachParticleOnce ==
    \A dt \in MotionDts, gravity \in Gravities :
        LET k == Moved(dt, gravity)
            w == ParticlePool_update(Pool, dt).pool
        IN  /\ k.count \in 0..Capacity
            /\ SurvivorsAreDistinct(k)
            /\ {k.origin[i] : i \in {j \in Slots : j < k.count}} = Outliving(dt)
            /\ k.count = Cardinality(Outliving(dt))
            /\ \A i \in Slots :
                   i < k.count =>
                       LET o == k.origin[i]
                       IN  /\ k.life[i] = FSub(life[o], dt)
                           /\ k.life[i] > 0
                           /\ k.max_life[i] = max_life[o]
                           /\ k.size[i] = size[o]
                           /\ k.rgb[i] = body.rgb[o]
                           /\ BodyOf(k, i) = Bounce(Advanced(o, dt, gravity))
            /\ w.count = k.count
            /\ \A i \in Slots :
                   i < k.count =>
                       /\ w.life[i] = k.life[i]
                       /\ w.max_life[i] = k.max_life[i]
                       /\ w.size[i] = k.size[i]

\* C21 witness: the pool is full and the coming update of one second removes
\* the particle of slot 0 and moves into slot 0 the particle of the last
\* slot, which differs from the removed one in colour, size and max_life and
\* survives with its life one second shorter; the particle of slot 1
\* survives in place.
C21_Witness ==
    /\ count = Capacity
    /\ LET k == Moved(10, 10)
           m == Capacity - 1
       IN  /\ k.count = Capacity - 1
           /\ k.origin[0] = m
           /\ k.origin[1] = 1
           /\ body.rgb[m] # body.rgb[0]
           /\ size[m] # size[0]
           /\ max_life[m] # max_life[0]
           /\ k.life[0] = life[m] - 10

\* Emissions anywhere and at any speed: outside each wall, and inside with a
\* velocity that carries the particle many screens away in one frame.
WildLaunches ==
    {[x |-> -50, y |-> 360, vx |-> 0, vy |-> 0],
     [x |-> 900, y |-> 1000, vx |-> 0, vy |-> 0],
     [x |-> 360, y |-> 0, vx |-> 0, vy |-> 0],
     [x |-> 1, y |-> 81, vx |-> -1000, vy |-> -1000],
     [x |-> 360, y |-> 360, vx |-> 1000, vy |-> 1000]}

\* Frame deltas (tenths of a second) from none to fifty seconds.
WildDts == {0, 10, 500}

\* C22 -- no tunneling: right after an update every live particle has
\* 0 <= x <= WIDTH-1 and TOOLBAR_H <= y <= HEIGHT-1; and whatever the position
\* and the velocity of a particle, the frame delta dt >= 0 and the gravity,
\* the statements of the loop that move it (integration, then the walls)
\* leave it within these limits.
C22_NoTunneling ==
    /\ pool_log.op = "update" =>
           \A i \in LiveSlots : Inside(BodyOf(Motion, i))
    /\ \A l \in WildLaunches, dt \in WildDts, gravity \in Gravities \cup {-10} :
           LET p == [x |-> Px(l.x), y |-> Px(l.y), vx |-> Px(l.vx), vy |-> Px(l.vy)]
           IN  Inside(Bounce(Integrate(p, dt, gravity)))

\* C22 witness: an update has stopped in the bottom right corner a particle
\* emitted at (718, 718) moving right, which gravity would have taken below
\* the bottom edge: it is at (719, 719) with both components reversed.
C22_Witness ==
    /\ pool_log.op = "update"
    /\ \E i \in LiveSlots :
           /\ body.x[i] = Px(WIDTH - 1) /\ body.y[i] = Px(HEIGHT - 1)
           /\ body.vx[i] = Px(-6) /\ body.vy[i] = Px(-6)

\* ---------------------------------------------------------------------------
\* Claims about the shape sorter (checked under SpecSorter)
\* ---------------------------------------------------------------------------

\* The release of the left button, wherever the pointer is.
Releases == {ev \in SorterEvents : ev.type = MOUSEBUTTONUP /\ ev.button = 1}

\* C13 -- snap on release: when the shape being dragged is released (left
\* button up) closer to its own target than SNAP_DIST, its position becomes
\* exactly (target_x, target_y) and placed becomes true; released anywhere
\* else (the threshold distance itself included) it is still not placed and
\* stays exactly where it was, which need not be its start position.  Either
\* way the shape stops being dragged and the screen drags nothing.
C13_SnapOnRelease ==
    (state = SHAPE_SORTER /\ ~sorter.celebrating /\ sorter.dragged_shape # None) =>
        \A ev \in Releases, plife \in SnapLives :
            LET r == ShapeSorterScreen_handle_event(Sorter, App, ev, plife).screen
                b == sorter.shapes[IndexOf(sorter.shapes, sorter.dragged_shape)]
                a == r.shapes[IndexOf(r.shapes, sorter.dragged_shape)]
            IN  /\ b.dragging /\ ~b.placed
                /\ ~a.dragging
                /\ r.dragged_shape = None
                /\ a.target_x = b.target_x /\ a.target_y = b.target_y
                /\ IF HypotLess(b.x - b.target_x, b.y - b.target_y, SNAP_DIST)
                   THEN a.x = b.target_x /\ a.y = b.target_y /\ a.placed
                   ELSE a.x = b.x /\ a.y = b.y /\ ~a.placed

\* C13 witness: nothing is dragged any more; one shape has just snapped onto
\* its target (its snap animation has not advanced yet), and another one was
\* released away from its start position at exactly the threshold distance
\* from its target and lies there, not placed.
C13_Witness ==
    /\ state = SHAPE_SORTER
    /\ sorter.dragged_shape = None
    /\ \E i \in 1..Len(sorter.shapes) :
          LET p == sorter.shapes[i]
          IN  /\ p.placed /\ ~p.dragging
              /\ p.x = p.target_x /\ p.y = p.target_y
              /\ p.snapping /\ p.snap_anim = 0
    /\ \E j \in 1..Len(sorter.shapes) :
          LET q == sorter.shapes[j]
          IN  /\ ~q.placed /\ ~q.dragging
              /\ <<q.x, q.y>> # <<q.start_x, q.start_y>>
              /\ ~HypotLess(q.x - q.target_x, q.y - q.target_y, SNAP_DIST)
              /\ HypotAtMost(q.x - q.target_x, q.y - q.target_y, SNAP_DIST)

\* The Shape object of that name in the screen s.
ShapeNamed(s, name) == s.shapes[IndexOf(s.shapes, Ref(name))]

\* The step builds the shapes again: the router has just entered the shape
\* sorter, or an update has ended the celebration.
Rebuilds ==
    \/ app_log' # app_log /\ InvokedOn(app_log'.calls, "on_enter", SHAPE_SORTER)
    \/ sorter.celebrating /\ ~sorter'.celebrating

\* A placed shape sits on its target and is not the shape being dragged.
PlacedOnTarget ==
    \A i \in 1..Len(sorter.shapes) :
        LET shape == sorter.shapes[i]
        IN  shape.placed =>
                /\ shape.x = shape.target_x /\ shape.y = shape.target_y
                /\ sorter.dragged_shape # Ref(shape.name)

\* The pointer events a placed shape is probed with: those the screen is
\* driven with, and a press on and next to every target.
SorterProbes ==
    SorterEvents
    \cup {[type |-> MOUSEBUTTONDOWN, pos |-> <<TargetOf(i)[1] + d[1], TargetOf(i)[2] + d[2]>>,
           button |-> 1] : i \in 1..ShapeCount, d \in Offsets}

\* No pointer event changes anything of a placed shape.
PlacedIgnoresPointer ==
    state = SHAPE_SORTER =>
        \A ev \in SorterProbes, plife \in SnapLives :
            LET r == ShapeSorterScreen_handle_event(Sorter, App, ev, plife).screen
            IN  \A i \in 1..Len(sorter.shapes) :
                    sorter.shapes[i].placed =>
                        ShapeNamed(r, sorter.shapes[i].name) = sorter.shapes[i]

\* A step that does not build the shapes again leaves a placed shape placed,
\* on the same target.
PlacedStays ==
    ~Rebuilds =>
        \A i \in 1..Len(sorter.shapes) :
            LET b == sorter.shapes[i]
            IN  b.placed =>
                    /\ \E j \in 1..Len(sorter'.shapes) : sorter'.shapes[j].name = b.name
                    /\ LET a == ShapeNamed(sorter', b.name)
                       IN  /\ a.placed
                           /\ a.x = b.target_x /\ a.y = b.target_y
                           /\ a.target_x = b.target_x /\ a.target_y = b.target_y

\* C23 -- placed shapes are frozen: a placed shape is at exactly
\* (target_x, target_y) and is never the shape being dragged; no pointer
\* event (a press on it included) changes anything of it; and it stays
\* placed on its target through every step until the shapes are built again.
C23_PlacedFrozen ==
    /\ [](PlacedOnTarget /\ PlacedIgnoresPointer)
    /\ [][PlacedStays]_vars

\* C23 witness: the first shape is placed, the game goes on with another
\* shape being dragged over it, and one of the presses the placed shapes are
\* probed with lies inside the placed shape.
C23_Witness ==
    /\ state = SHAPE_SORTER
    /\ ~sorter.celebrating
    /\ Len(sorter.shapes) = ShapeCount
    /\ ShapeNamed(sorter, SHAPE_NAMES[1]).placed
    /\ sorter.dragged_shape # None
    /\ LET d == ShapeNamed(sorter, sorter.dragged_shape.name)
       IN  HypotLess(d.x - TargetOf(1)[1], d.y - TargetOf(1)[2], SNAP_DIST)
    /\ \E ev \in SorterProbes :
           /\ ev.type = MOUSEBUTTONDOWN /\ ev.button = 1
           /\ point_in_shape(SHAPE_NAMES[1], ev.pos[1], ev.pos[2],
                             TargetOf(1)[1], TargetOf(1)[2], SHAPE_SIZE)

\* The screen right after _build_shapes: the shapes of SHAPE_DEFS, none
\* placed or dragged, no particles, no confetti, no celebration.
FreshlyBuilt(s) ==
    /\ ~s.celebrating
    /\ Len(s.shapes) = Len(SHAPE_DEFS)
    /\ \A i \in 1..Len(s.shapes) :
           /\ s.shapes[i].name = SHAPE_DEFS[i]
           /\ ~s.shapes[i].placed /\ ~s.shapes[i].dragging
    /\ s.dragged_shape = None
    /\ s.particles = <<>>
    /\ s.confetti = 0

\* With shapes on the screen, celebrating holds iff every shape is placed.
CelebratingIffAllPlaced ==
    sorter.shapes # <<>> => (sorter.celebrating <=> AllPlaced(sorter.shapes))

\* celebrating becomes true only in handle_event, at a release that places a
\* shape that was not placed while every other shape is.
CelebrationStartsAtLastRelease ==
    (~sorter.celebrating /\ sorter'.celebrating) =>
        /\ app_log'.op.name = "handle_event"
        /\ sorter.dragged_shape # None
        /\ sorter'.dragged_shape = None
        /\ ~ShapeNamed(sorter, sorter.dragged_shape.name).placed
        /\ ShapeNamed(sorter', sorter.dragged_shape.name).placed
        /\ sorter'.celebrate_timer = CELEBRATE_TIME
        /\ sorter'.elapsed = 0

\* The update that takes celebrate_timer to zero or below builds the shapes
\* again, and no earlier update does.
ReplayWhenTimerOut ==
    sorter.celebrating =>
        \A dt \in SorterDts, starts \in StartDraws :
            LET r == ShapeSorterScreen_update(Sorter, dt, starts)
                t == FSub(sorter.celebrate_timer, Eighths(dt))
            IN  IF t <= 0
                THEN FreshlyBuilt(r)
                ELSE /\ r.celebrating
                     /\ r.celebrate_timer = t
                     /\ AllPlaced(r.shapes)

\* C24 (as claimed): with shapes on the screen celebrating holds iff every
\* shape is placed, and the celebration does not outlast updates totalling
\* 2.5 s.
C24_ReplayAfterCumulativeDt ==
    /\ CelebratingIffAllPlaced
    /\ sorter.celebrating => sorter.elapsed < 125 * CELEBRATE_TIME

\* C24 (amended): with shapes on the screen celebrating holds iff every
\* shape is placed, and it becomes true at the release that places the last
\* unplaced shape; the update that leaves celebrate_timer (2.5 after the
\* float subtraction of the dt of every update since) <= 0 builds the whole
\* set again by itself (not celebrating, the shapes of SHAPE_DEFS, none
\* placed or dragged, no particles, no confetti) and no earlier update does;
\* whenever the subtractions are free of rounding this is the first update
\* at which the celebration's updates total 2.5 s.
C24_ReplayWhenTimerRunsOut ==
    /\ [](/\ CelebratingIffAllPlaced
          /\ ReplayWhenTimerOut
          /\ (sorter.celebrating /\ sorter.exact) =>
                 /\ sorter.elapsed < 125 * CELEBRATE_TIME
                 /\ sorter.celebrate_timer = CELEBRATE_TIME - Eighths(sorter.elapsed))
    /\ [][CelebrationStartsAtLastRelease]_vars

\* C24 witness: the celebration has lasted 2 s of updates without rounding;
\* the confetti are out and a next update of half a second is the one that
\* builds the shapes again.
C24_Witness ==
    /\ state = SHAPE_SORTER
    /\ sorter.celebrating
    /\ sorter.exact
    /\ sorter.elapsed = 2000
    /\ sorter.confetti = 80
    /\ FreshlyBuilt(ShapeSorterScreen_update(Sorter, 500, CHOOSE starts \in StartDraws : TRUE))

\* C29 -- drag bookkeeping: in every reachable state a shape has dragging
\* true iff it is the screen's dragged_shape; so at most one shape is dragging
\* and none is once the pointer is released.
C29_DragBookkeeping ==
    \A i \in 1..Len(sorter.shapes) :
        sorter.shapes[i].dragging <=> sorter.dragged_shape = Ref(sorter.shapes[i].name)

\* C29 witness: after a press on one shape, a press on another one and a
\* release, the screen drags nothing and the first shape, not placed, still
\* has dragging true; draw skips it.
C29_Witness ==
    /\ state = SHAPE_SORTER
    /\ sorter.dragged_shape = None
    /\ \E i \in 1..Len(sorter.shapes) :
           sorter.shapes[i].dragging /\ ~sorter.shapes[i].placed

\* The presses a pick-up is probed with: those of the screen, a press on and
\* next to every target, and a press on the corner of the back button that
\* is nearest to the shapes.
PickupProbes ==
    {ev \in SorterProbes : ev.type = MOUSEBUTTONDOWN}
    \cup {[type |-> MOUSEBUTTONDOWN, pos |-> <<94, 94>>, button |-> 1]}

\* The indices of the unplaced shapes whose hit circle holds the point.
UnplacedHits(shapes, mx, my) ==
    {i \in 1..Len(shapes) :
        /\ ~shapes[i].placed
        /\ point_in_shape(shapes[i].name, mx, my, shapes[i].x, shapes[i].y, SHAPE_SIZE)}

\* The shapes other than the named one, in the order of the list.
Others(shapes, name) ==
    LET other(shape) == shape.name # name
    IN  SelectSeq(shapes, other)

\* The screen r is the screen s after the press at (mx, my) picked up the
\* latest of the unplaced shapes under the pointer.
PickedTopmost(s, r, mx, my) ==
    LET hits == UnplacedHits(s.shapes, mx, my)
        i == CHOOSE k \in hits : \A j \in hits : j <= k
        shape == s.shapes[i]
    IN  /\ r.dragged_shape = Ref(shape.name)
        /\ r.drag_offset = <<shape.x - mx, shape.y - my>>
        /\ Len(r.shapes) = Len(s.shapes)
        /\ r.shapes[Len(r.shapes)] = [shape EXCEPT !.dragging = TRUE]
        /\ Others(r.shapes, shape.name) = Others(s.shapes, shape.name)

\* The press ev is on the back button the screen has drawn.
OnBackButton(ev) ==
    /\ sorter.back_rect # None
    /\ Rect_collidepoint(sorter.back_rect, ev.pos[1], ev.pos[2])

\* C32 (as claimed): every press inside the hit circle of an unplaced shape
\* picks up the latest such shape of the list.
C32_EveryPressPicksUp ==
    (state = SHAPE_SORTER /\ ~sorter.celebrating) =>
        \A ev \in PickupProbes, plife \in SnapLives :
            UnplacedHits(sorter.shapes, ev.pos[1], ev.pos[2]) # {} =>
                PickedTopmost(sorter,
                              ShapeSorterScreen_handle_event(Sorter, App, ev, plife).screen,
                              ev.pos[1], ev.pos[2])

\* C32 (amended): a press of the left button that is not on the back button
\* and lies within the hit circle (radius SHAPE_SIZE + 10) of one or more
\* unplaced shapes picks up the one latest in the list: it becomes the
\* dragged shape, drag_offset is its position minus the pointer's, and it
\* goes to the end of the list while the other shapes keep their order and
\* everything of theirs; such a press that hits no unplaced shape changes
\* nothing, and a press of another button or on the back button picks up
\* nothing; while a shape is dragged every pointer move sets its position to
\* the pointer's plus drag_offset and changes nothing else.
C32_PickupTopmost ==
    (state = SHAPE_SORTER /\ ~sorter.celebrating) =>
        /\ \A ev \in PickupProbes, plife \in SnapLives :
              LET r == ShapeSorterScreen_handle_event(Sorter, App, ev, plife).screen
              IN  IF ev.button # 1 \/ OnBackButton(ev)
                  THEN r = sorter
                  ELSE IF UnplacedHits(sorter.shapes, ev.pos[1], ev.pos[2]) = {}
                  THEN r = sorter
                  ELSE /\ PickedTopmost(sorter, r, ev.pos[1], ev.pos[2])
                       /\ r = [sorter EXCEPT !.dragged_shape = r.dragged_shape,
                                              !.drag_offset = r.drag_offset,
                                              !.shapes = r.shapes]
        /\ sorter.dragged_shape # None =>
              \A ev \in SorterProbes, plife \in SnapLives :
                  ev.type = MOUSEMOTION =>
                      LET r == ShapeSorterScreen_handle_event(Sorter, App, ev, plife).screen
                          i == IndexOf(sorter.shapes, sorter.dragged_shape)
                      IN  r = [sorter EXCEPT
                                  !.shapes[i].x = ev.pos[1] + sorter.drag_offset[1],
                                  !.shapes[i].y = ev.pos[2] + sorter.drag_offset[2]]

\* C32 witness: the second shape was picked up from under the pointer where
\* both lay, dragged away and let go; then the first shape was picked up,
\* went to the end of the list and was dragged onto the second one with the
\* offset of its pick-up: a press there finds both and picks the first again.
C32_Witness ==
    /\ state = SHAPE_SORTER
    /\ ~sorter.celebrating
    /\ Len(sorter.shapes) = ShapeCount
    /\ sorter.shapes[ShapeCount].name = SHAPE_NAMES[1]
    /\ sorter.dragged_shape = Ref(SHAPE_NAMES[1])
    /\ sorter.drag_offset = <<-55, -50>>
    /\ \E ev \in SorterEvents :
           /\ ev.type = MOUSEMOTION
           /\ \A i \in 1..ShapeCount :
                  /\ ~sorter.shapes[i].placed
                  /\ sorter.shapes[i].x = ev.pos[1] + sorter.drag_offset[1]
                  /\ sorter.shapes[i].y = ev.pos[2] + sorter.drag_offset[2]
           /\ UnplacedHits(sorter.shapes, ev.pos[1], ev.pos[2]) = 1..ShapeCount

\* During the celebration the shape sorter is the current screen and
\* handle_event returns at once: no event changes the screen or reaches the
\* router.
CelebrationIgnoresEvents ==
    sorter.celebrating =>
        /\ state = SHAPE_SORTER
        /\ \A ev \in PickupProbes \cup SorterProbes, plife \in SnapLives :
              LET r == ShapeSorterScreen_handle_event(Sorter, App, ev, plife)
              IN  /\ r.screen = sorter
                  /\ r.app.state = state
                  /\ r.app.history = history
                  /\ r.app.calls = <<>>

\* A step taken during the celebration leaves the shape sorter the current
\* screen and the history as it is; an event leaves the screen as it is;
\* and the celebration ends only in an update, which builds the shapes
\* again.
CelebrationEndsByTimer ==
    sorter.celebrating =>
        /\ state' = SHAPE_SORTER
        /\ history' = history
        /\ app_log'.op.name = "handle_event" => sorter' = sorter
        /\ ~sorter'.celebrating =>
              /\ app_log'.op.name = "update"
              /\ FreshlyBuilt(sorter')

\* C35 -- during the celebration every input event is ignored: while
\* celebrating is true handle_event changes no shape, starts no drag and
\* does not navigate (the back button has no effect), so the shape sorter
\* stays the current screen until the update that ends the celebration has
\* built the shapes again.
C35_CelebrationIgnoresInput ==
    /\ []CelebrationIgnoresEvents
    /\ [][CelebrationEndsByTimer]_vars

\* C35 witness: the celebration has been going on for some updates, the
\* back button is drawn, and the last call was an event, which left the
\* shape sorter on the screen with every shape placed.
C35_Witness ==
    /\ state = SHAPE_SORTER
    /\ sorter.celebrating
    /\ sorter.elapsed > 0
    /\ sorter.back_rect # None
    /\ app_log.op.name = "handle_event"
    /\ AllPlaced(sorter.shapes)
    /\ sorter.dragged_shape = None

\* ---------------------------------------------------------------------------
\* Claims about the toolbar of the playground (checked under SpecPlayground)
\* ---------------------------------------------------------------------------

\* Where the pointer is put to probe the strip: on each mode button, at the
\* press position of the specification's drag, at most 8 pixels and more than
\* 8 pixels away from it, and past the last button.
ProbeXs == {110, 174, 292, 300, 302, 308, 309, 310, 430, 560, 640}
ProbePoints == {<<x, y>> : x \in ProbeXs, y \in {12, 40, 68}}
ProbeMoves == {[type |-> MOUSEMOTION, pos |-> p] : p \in ProbePoints}
ProbeReleases == {[type |-> MOUSEBUTTONUP, pos |-> p] : p \in ProbePoints}

\* C14 -- toolbar drag suppresses tap: during a pointer session on the strip
\* (from the press to the release), a motion event more than 8 pixels away
\* horizontally from the press position flags the gesture as a drag; once
\* flagged it stays flagged through every later motion event and the
\* release, wherever the pointer goes; while it is flagged get_btn_at
\* returns -1 for every position; and the release leaves the selected mode
\* as it is, even on a button.
C14_DragSuppressesTap ==
    /\ toolbar.dragging =>
          \A ev \in ProbeMoves :
              LET t == ScrollToolbar_handle_event(toolbar, ev)
              IN  /\ t.ret /\ t.toolbar.dragging
                  /\ t.toolbar.drag_start_x = toolbar.drag_start_x
                  /\ Abs(toolbar.drag_start_x - ev.pos[1]) > 8 => t.toolbar.was_drag
                  /\ toolbar.was_drag => t.toolbar.was_drag
    /\ toolbar.was_drag =>
          \A p \in ProbePoints : ScrollToolbar_get_btn_at(toolbar, p) = -1
    /\ (toolbar.dragging /\ toolbar.was_drag) =>
          \A ev \in ProbeReleases :
              LET r == ParticlePlaygroundScreen_handle_event(Screen, App, ev, <<>>)
              IN  /\ r.screen.mode = mode
                  /\ r.screen.toolbar.was_drag
                  /\ ~r.screen.toolbar.dragging

\* C14 witness: a drag of the strip has just been released over a mode
\* button that is not the selected one, and the mode is still the one
\* selected before.
C14_Witness ==
    /\ screen_log.op = "handle_event"
    /\ toolbar.was_drag
    /\ ~toolbar.dragging
    /\ LET over == FirstRectAt(ScrollToolbar_get_btn_rects(toolbar), toolbar.last_mx, 40)
       IN  over >= 0 /\ over # mode

\* ---------------------------------------------------------------------------
\* Claims about the toolbars (checked under SpecWeather)
\* ---------------------------------------------------------------------------

\* The centre of button k of the strip where it is scrolled to.
ButtonCentre(tb, k) ==
    LET r == ScrollToolbar_get_btn_rects(tb)[k + 1]
    IN  <<r.x + r.w \div 2, r.y + r.h \div 2>>

\* The point belongs to the visible part of the strip.
OnStrip(tb, p) == tb.left_x <= p[1] /\ p[1] < WIDTH /\ InBand(tb, p[2])

\* How far the pointer strays horizontally during a tap, in pixels: not at
\* all, and by the drag threshold.
Wiggles == {0, 8}

\* The playground after a tap at p: press, move by w, release at p.
PlaygroundTap(s, a, p, w) ==
    LET s1 == ParticlePlaygroundScreen_handle_event(
                  s, a, [type |-> MOUSEBUTTONDOWN, pos |-> p], <<>>).screen
        s2 == ParticlePlaygroundScreen_handle_event(
                  s1, a, [type |-> MOUSEMOTION, pos |-> <<p[1] + w, p[2]>>], <<>>).screen
    IN  ParticlePlaygroundScreen_handle_event(
            s2, a, [type |-> MOUSEBUTTONUP, pos |-> p], <<>>).screen

\* The weather toy after a tap at p: press, move by w, release at p.
WeatherTap(s, a, p, w) ==
    LET s1 == WeatherToyScreen_handle_event(s, a, [type |-> MOUSEBUTTONDOWN, pos |-> p]).screen
        s2 == WeatherToyScreen_handle_event(
                  s1, a, [type |-> MOUSEMOTION, pos |-> <<p[1] + w, p[2]>>]).screen
    IN  WeatherToyScreen_handle_event(s2, a, [type |-> MOUSEBUTTONUP, pos |-> p]).screen

\* C15 -- toolbar tap activates: in the particle playground and in the
\* weather toy, a press on a visible toolbar button followed by a release
\* over the same button, the pointer never straying more than the drag
\* threshold, makes the screen's mode, respectively scene, that button's
\* index.  The code never does: the press is consumed by the toolbar, and on
\* the release of a tap the toolbar returns False, so neither branch that
\* assigns the mode or switches the scene runs.
C15_TapActivates ==
    /\ \A k \in 0..(toolbar.btn_count - 1), w \in Wiggles :
          LET p == ButtonCentre(toolbar, k)
          IN  OnStrip(toolbar, p) => PlaygroundTap(Screen, App, p, w).mode = k
    /\ \A k \in 0..(weather.toolbar.btn_count - 1), w \in Wiggles :
          LET p == ButtonCentre(weather.toolbar, k)
          IN  OnStrip(weather.toolbar, p) => WeatherTap(Weather, App, p, w).scene = k

\* C15 witness: in the weather toy a tap is over (the strip was pressed and
\* released without a drag), the press was on a button other than the one
\* of the current scene, and the scene has not changed.
C15_Witness ==
    /\ state = WEATHER_TOY
    /\ app_log.op.name = "handle_event"
    /\ ~weather.toolbar.dragging
    /\ ~weather.toolbar.was_drag
    /\ weather.toolbar.last_mx = weather.toolbar.drag_start_x
    /\ LET over == FirstRectAt(ScrollToolbar_get_btn_rects(weather.toolbar),
                               weather.toolbar.drag_start_x, 40)
       IN  over >= 0 /\ over # weather.scene

\* The scroll offset of the strip is within its range.
ScrollInRange(tb) == 0 <= tb.scroll_x /\ tb.scroll_x <= tb.max_scroll * Milli

\* The events and frame deltas (tenths of a second) the strips are probed
\* with.
StripProbes ==
    {[type |-> t, pos |-> <<x, 40>>] :
        t \in {MOUSEBUTTONDOWN, MOUSEMOTION, MOUSEBUTTONUP},
        x \in {0, 110, 170, 300, 430, 719}}
ProbeDts == {0, 1, 5, 20}

\* C16 -- toolbar scroll offset stays in range: after any sequence of
\* pointer-down, pointer-move and pointer-up events and update(dt) calls
\* (drag and momentum), 0 <= scroll_x <= max_scroll, for the strip of the
\* weather toy (which scrolls) and the one of the playground (which does
\* not, its max_scroll being 0).
C16_ScrollInRange ==
    /\ ScrollInRange(weather.toolbar)
    /\ ScrollInRange(toolbar)
    /\ \A tb \in {weather.toolbar, toolbar} :
          /\ \A ev \in StripProbes : ScrollInRange(ScrollToolbar_handle_event(tb, ev).toolbar)
          /\ \A dt \in ProbeDts : ScrollInRange(ScrollToolbar_update(tb, dt))

\* C16 witness: the momentum of a released drag has just pushed the strip of
\* the weather toy against the end of its range, where it was clamped.
C16_Witness ==
    /\ state = WEATHER_TOY
    /\ app_log.op.name = "update"
    /\ ~weather.toolbar.dragging
    /\ weather.toolbar.velocity > 0
    /\ weather.toolbar.max_scroll > 0
    /\ weather.toolbar.scroll_x = weather.toolbar.max_scroll * Milli

\* The strips of the two screens.
Strips == {weather.toolbar, toolbar}

\* The momentum is under way: no drag, and a velocity above 1.
Coasting(tb) == ~tb.dragging /\ Abs(tb.velocity) > Milli

\* One update of the strip tb: while it coasts the velocity becomes 0.9
\* times what it was, smaller in magnitude, and nothing but scroll_x and
\* the velocity changes; during a drag, or with a velocity of at most 1,
\* the update changes nothing.
FrictionStep(tb, dt) ==
    LET r == ScrollToolbar_update(tb, dt)
    IN  IF Coasting(tb)
        THEN /\ r.velocity = RoundDiv(9 * tb.velocity, 10)
             /\ Abs(r.velocity) < Abs(tb.velocity)
             /\ r = [tb EXCEPT !.scroll_x = r.scroll_x, !.velocity = r.velocity]
        ELSE r = tb

\* The velocity is four times a difference of two pointer positions, or
\* what friction has left of it.
VelocityBounded(tb) == Abs(tb.velocity) <= 4 * WIDTH * Milli

\* A press on the strip (in its band, not left of it) starts a drag and
\* sets the velocity to zero.
PressStopsMomentum(tb) ==
    \A ev \in StripProbes \cup WeatherEvents :
        (ev.type = MOUSEBUTTONDOWN /\ InBand(tb, ev.pos[2]) /\ ev.pos[1] >= tb.left_x) =>
            LET r == ScrollToolbar_handle_event(tb, ev).toolbar
            IN  r.velocity = 0 /\ r.dragging

\* An update of the weather toy is an update of its strip.
UpdateIsToolbarUpdate ==
    (app_log' # app_log /\ app_log'.op.name = "update" /\ state = WEATHER_TOY) =>
        \E dt \in WeatherDts : weather'.toolbar = ScrollToolbar_update(weather.toolbar, dt)

C37_MomentumNeverBounces ==
    \A tb \in Strips, dt \in ProbeDts :
        Coasting(tb) =>
            LET r == ScrollToolbar_update(tb, dt)
            IN  IF tb.velocity > 0
                THEN /\ r.velocity > 0
                     /\ r.scroll_x >= tb.scroll_x
                     /\ tb.scroll_x = tb.max_scroll * Milli => r.scroll_x = tb.scroll_x
                ELSE /\ r.velocity < 0
                     /\ r.scroll_x <= tb.scroll_x
                     /\ tb.scroll_x = 0 => r.scroll_x = 0

\* C37 witness: a drag that began with the strip scrolled was released
\* moving back, and the momentum has taken the strip to 0, where it stays
\* while the velocity decays.
C37_Witness ==
    /\ state = WEATHER_TOY
    /\ app_log.op.name = "update"
    /\ Coasting(weather.toolbar)
    /\ weather.toolbar.velocity < 0
    /\ weather.toolbar.drag_start_scroll > 0
    /\ weather.toolbar.scroll_x = 0
    /\ ScrollToolbar_update(weather.toolbar, 1).scroll_x = 0

\* The strips the constructor is probed with: those of the two screens, one
\* whose content is 6 pixels narrower than what is visible and one whose
\* content is 10 pixels narrower.
StripShapes ==
    {<<110, 10, 58, 140, 6, SceneCount>>, <<110, (TOOLBAR_H - 56) \div 2, 56, 120, 8, 4>>,
     <<110, 10, 58, 120, 1, 5>>, <<110, 10, 58, 120, 0, 5>>}

\* The width of the buttons of a strip with the gaps between them, and the
\* width of the screen right of left_x.
TotalContent(tb) == tb.btn_count * tb.btn_width + (tb.btn_count - 1) * tb.btn_gap
Visible(tb) == WIDTH - tb.left_x

\* The strip the constructor makes of h.
StripOf(h) == ScrollToolbar_new(h[1], h[2], h[3], h[4], h[5], h[6])

C17_SpawnBounded ==
    /\ bubble.attempt <= ATTEMPTS
    /\ bubble.pc = "loop" => bubble.attempt < ATTEMPTS
    /\ bubble.log.op \in {"radius", "sample"} => Len(bubble.bubbles) = bubble.log.before
    /\ bubble.log.op = "spawn" =>
          /\ 1 <= bubble.log.attempts /\ bubble.log.attempts <= ATTEMPTS
          /\ Len(bubble.bubbles) = bubble.log.before + 1
          /\ bubble.bubbles[Len(bubble.bubbles)].pos = bubble.log.pos
          /\ ~bubble.log.fits => bubble.log.attempts = ATTEMPTS
C17_SpawnTerminates ==
    /\ []C17_SpawnBounded
    /\ (bubble.pc \in {"call", "loop"}) ~> (bubble.pc = "idle")

\* A call of spawn_bubble has ended after 50 samples that all overlapped one
\* of the bubbles, and its bubble lies on another one.
C17_Witness ==
    /\ bubble.log.op = "spawn"
    /\ bubble.log.attempts = ATTEMPTS
    /\ ~bubble.log.fits
    /\ bubble.log.before >= 1
    /\ \E i \in 1..bubble.log.before : bubble.bubbles[i].pos = bubble.log.pos

\* The centre p of a bubble of radius r is at least the two radii plus 5
\* from the centre of every one of the bubbles.
ClearOfAll(bubbles, p, r) ==
    \A i \in 1..Len(bubbles) :
        LET dx == p[1] - bubbles[i].pos[1]
            dy == p[2] - bubbles[i].pos[2]
            d == r + bubbles[i].radius + 5
        IN  dx * dx + dy * dy >= d * d

\* The samples an iteration of the loop is probed with: those of the game,
\* and points at and one pixel inside the distance 30 + 30 + 5 and
\* 30 + 65 + 5 of the first centre.
SampleProbes ==
    Positions \cup {<<165, 100>>, <<164, 100>>, <<200, 100>>, <<199, 100>>, <<160, 180>>}

\* C33: in spawn_bubble of the screen a sample that is at least the two
\* radii plus the buffer 5 from every existing bubble ends the loop and is
\* where the new bubble is put; a sample that is not is passed over while
\* fewer than 50 have been drawn, and the 50th sample is taken whatever it
\* is.  So every sample the loop has passed over overlapped, and a new
\* bubble that is closer than that to an existing one was the 50th sample.
C33_PlacementAvoidsOverlap ==
    bubble.kind = "BubblePopScreen" =>
        /\ bubble.log.op = "sample" =>
              /\ ~ClearOfAll(bubble.bubbles, bubble.log.pos, bubble.radius)
              /\ bubble.log.attempts = bubble.attempt
              /\ bubble.attempt < ATTEMPTS
        /\ bubble.log.op = "spawn" =>
              LET n == Len(bubble.bubbles)
                  new == bubble.bubbles[n]
              IN  /\ new = [pos |-> bubble.log.pos, radius |-> bubble.radius]
                  /\ \/ ClearOfAll(SubSeq(bubble.bubbles, 1, n - 1), new.pos, new.radius)
                     \/ bubble.log.attempts = ATTEMPTS
        /\ bubble.pc = "loop" =>
              \A p \in SampleProbes :
                  InSampleRange(Game, p) =>
                      LET r == Spawn_iterate(Game, p)
                          put == Append(bubble.bubbles, [pos |-> p, radius |-> bubble.radius])
                      IN  IF ClearOfAll(bubble.bubbles, p, bubble.radius)
                          THEN r.bubbles = put
                          ELSE IF bubble.attempt + 1 < ATTEMPTS
                          THEN /\ r.bubbles = bubble.bubbles
                               /\ r.pc = "loop"
                               /\ r.attempt = bubble.attempt + 1
                          ELSE r.bubbles = put

\* C33 witness: a call of spawn_bubble of the screen passed over samples
\* that overlapped and ended before the 50th on one that is clear of the
\* bubble there was.
C33_Witness ==
    /\ bubble.kind = "BubblePopScreen"
    /\ bubble.log.op = "spawn"
    /\ bubble.log.before = 1
    /\ 1 < bubble.log.attempts /\ bubble.log.attempts < ATTEMPTS
    /\ ClearOfAll(SubSeq(bubble.bubbles, 1, 1), bubble.log.pos, bubble.radius)

\* ---------------------------------------------------------------------------
\* Claims about the Roku helper (checked under SpecRemote)
\* ---------------------------------------------------------------------------

\* A step of a thread of the helper, and a call of the helper by a screen.
IsThreadStep == roku'.threads # roku.threads /\ roku'.log.op \in {"urlopen", "_post"}
IsCommand == roku' # roku /\ roku'.log.op \in {"send_keypress", "launch_show"}

\* What holds of the helper in every state: nothing was raised; with ENABLED
\* false no thread exists and no request was made; a thread makes at most one
\* request, and none before it runs; a command has started one thread with
\* ENABLED true and none otherwise, and has made no request itself, its
\* thread still being where it started; a thread that ended had made one
\* request at most, whatever the request did.
RokuSilent ==
    /\ roku.log.raised = NoError
    /\ ~roku.ENABLED => roku.threads = <<>> /\ roku.log.started = 0 /\ roku.log.requests = 0
    /\ \A i \in 1..Len(roku.threads) :
          /\ roku.threads[i].attempts <= 1
          /\ roku.threads[i].stage = "started" <=> roku.threads[i].attempts = 0
    /\ roku.log.op \in {"send_keypress", "launch_show"} =>
          /\ roku.log.started = (IF roku.ENABLED THEN 1 ELSE 0)
          /\ roku.log.requests = 0
          /\ roku.ENABLED =>
                /\ Len(roku.threads) >= 1
                /\ roku.threads[Len(roku.threads)].stage = "started"
    /\ roku.log.op = "_post" => roku.log.requests <= 1

\* C18: send_keypress and launch_show raise nothing and wait for nothing;
\* with ENABLED false they start no thread and make no request; with ENABLED
\* true they start exactly one thread, which makes a single request whose
\* failure is swallowed and not retried; and a step of a thread changes
\* neither the router nor the screens.
C18_FireAndForget ==
    /\ []RokuSilent
    /\ [][IsCommand =>
            Len(roku'.threads) = Len(roku.threads) + (IF roku.ENABLED THEN 1 ELSE 0)]_vars
    /\ [][IsThreadStep => UNCHANGED <<appVars, shows, remote>>]_vars

\* With ENABLED true a thread has just ended after a request that failed,
\* while the remote screen shows a pressed button and another thread is
\* still waiting for its answer.
C18_Witness ==
    /\ roku.ENABLED
    /\ roku.log.op = "_post"
    /\ roku.log.outcome \in {"timeout", "refused", "error"}
    /\ roku.log.requests = 1
    /\ state = REMOTE
    /\ \E i \in 1..Len(remote.press.pressed) : remote.press.pressed[i]
    /\ \E i \in 1..Len(roku.threads) : roku.threads[i].stage = "request"

\* ---------------------------------------------------------------------------
\* Claims about the videos screen (checked under SpecVideos)
\* ---------------------------------------------------------------------------

\* The pointer events tried on the screen: presses, moves and releases on the
\* back button, on the cards and between them.
VideoProbes ==
    {[type |-> t, pos |-> p] :
        t \in {MOUSEBUTTONDOWN, MOUSEMOTION, MOUSEBUTTONUP},
        p \in {<<50, 50>>, <<190, 160>>, <<190, 60>>, <<530, 300>>, <<190, 700>>}}

\* C19: while playing is true, every pointer event leaves the screen as it
\* is (no thread started, no scrolling, no touch tracked) and the router's
\* state and history as they are, with no call made on it; and no two videos
\* ever play at a time.
C19_PlayingIgnoresInput ==
    /\ Len(videos.threads) <= 1
    /\ videos.playing =>
          \A ev \in VideoProbes :
             LET r == VideosScreen_handle_event(Videos, App, ev)
             IN  /\ r.screen = videos
                 /\ r.app.state = state
                 /\ r.app.history = history
                 /\ r.app.calls = <<>>
                 /\ r.app.raised = NoError

\* A video is playing on the scrolled list with the back button drawn, the
\* press animation of its card is over, and the last call of the router
\* handed an event to the screen: an event that was ignored.
C19_Witness ==
    /\ videos.playing
    /\ state = VIDEOS
    /\ app_log.op.name = "handle_event"
    /\ videos.back_rect # None
    /\ videos.scroll_y > 0
    /\ \A i \in 1..Len(videos.press.pressed) : ~videos.press.pressed[i]

\* C25: playing is true exactly while a unit is in flight, so it is never
\* stuck at true after the unit has finished; a unit that ends, however
\* subprocess.run ended (exit, timeout, player missing, another exception),
\* has set playing to false exactly once; and every playback that is started
\* eventually clears playing.
C25_PlayingCleared ==
    /\ [](/\ videos.playing <=> Len(videos.threads) = 1
          /\ videos.ended.outcome # "-" => videos.ended.clears = 1)
    /\ [][\A i \in DOMAIN videos.threads :
              (videos.threads[i].stage = "finally" /\ Len(videos'.threads) < Len(videos.threads))
                  => (~videos'.playing /\ videos'.ended.outcome = videos.threads[i].outcome)]_vars
    /\ (videos.playing ~> ~videos.playing)

\* C25 witness: a playback that ran into the 30 minute timeout is over and
\* playing is false again.
C25_Witness ==
    /\ state = VIDEOS
    /\ ~videos.playing
    /\ videos.threads = <<>>
    /\ videos.ended = [outcome |-> "TimeoutExpired", clears |-> 1]

\* ---------------------------------------------------------------------------
\* Claims about the render loop (checked under SpecLoop)
\* ---------------------------------------------------------------------------

\* The index of the first event of the list that ends the program; one more
\* than the length of the list when there is none.
FirstQuit(events) ==
    LET qs == {i \in 1..Len(events) : events[i].type = QUIT
                                      \/ (events[i].type = KEYDOWN /\ events[i].key = K_ESCAPE)}
    IN  IF qs = {} THEN Len(events) + 1 ELSE CHOOSE i \in qs : \A j \in qs : i <= j

\* The calls a frame that fetched the events makes on the router: every
\* event before the first that ends the program, in order, and when none
\* ends it one update and then one draw.
FrameCalls(events) ==
    LET q == FirstQuit(events)
        dispatched == [i \in 1..(q - 1) |-> [op |-> "handle_event", event |-> events[i]]]
    IN  IF q > Len(events)
        THEN dispatched \o <<[op |-> "update", event |-> None], [op |-> "draw", event |-> None]>>
        ELSE dispatched

IsPrefix(a, b) == Len(a) <= Len(b) /\ SubSeq(b, 1, Len(a)) = a

\* C20: the calls of a frame are the frame's events in order, then update
\* once, then draw once, and nothing else; a frame is over only when all of
\* them were made; an event that ends the program is followed by no call,
\* the program having ended with the events before it dispatched and
\* neither update nor draw called.
C20_FrameOrder ==
    /\ IsPrefix(loop.trace, FrameCalls(loop.fetched))
    /\ loop.pc = "tick" => loop.trace = <<>> \/ loop.trace = FrameCalls(loop.fetched)
    /\ loop.pc = "draw" => loop.trace = SubSeq(FrameCalls(loop.fetched), 1, Len(loop.fetched) + 1)
    /\ loop.pc = "exit" =>
          /\ FirstQuit(loop.fetched) <= Len(loop.fetched)
          /\ loop.trace = FrameCalls(loop.fetched)
          /\ \A i \in 1..Len(loop.trace) : loop.trace[i].op = "handle_event"
    /\ loop.trace # <<>> => app_log.op.name = loop.trace[Len(loop.trace)].op

\* The program has ended on the second event of a frame, QUIT, after the
\* first was dispatched to the videos screen.
C20_Witness ==
    /\ loop.pc = "exit"
    /\ Len(loop.fetched) = 2
    /\ loop.fetched[2].type = QUIT
    /\ Len(loop.trace) = 1
    /\ state = VIDEOS

\* ---------------------------------------------------------------------------
\* Claims about the navigation (checked under SpecNav)
\* ---------------------------------------------------------------------------

\* No id occurs twice in the list l.
NoRepeats(l) == \A i, j \in 1..Len(l) : i # j => l[i] # l[j]

\* C27: in the application as main.py wires it, history is the path from the
\* root: it is empty exactly when the main menu is current, it starts with
\* the main menu otherwise, it holds at most two ids, and no id occurs twice
\* in history followed by the current one.
C27_HistoryIsPathFromRoot ==
    /\ (history = <<>>) <=> (state = MAIN_MENU)
    /\ history # <<>> => history[1] = MAIN_MENU
    /\ Len(history) <= 2
    /\ NoRepeats(Append(history, state))

\* C27 witness: the remote is current, two screens deep, after the games
\* menu, the fireworks and the videos have been visited, drawn and left.
C27_Witness ==
    /\ state = REMOTE
    /\ history = <<MAIN_MENU, SHOWS>>
    /\ menus.games.back_rect # None
    /\ menus.back_rect[FIREWORKS] # None
    /\ menus.back_rect[VIDEOS] # None

\* The menu with the id.
MenuOf(m, id) == IF id = MAIN_MENU THEN m.main ELSE m.games

\* go_to was called with the target of a button or a card.
MenuNavigation == Len(history') > Len(history) /\ state' # REMOTE

\* A navigation of a menu comes from the update of that menu while it is
\* current, for a tap of this visit that has not navigated yet, to the
\* target of the tap, and once the updates since the tap have been called
\* with NAV_DELAY milliseconds in all; nothing stays armed.
NavigationInTime ==
    MenuNavigation =>
        /\ state \in MenuIds
        /\ app_log'.op.name = "update"
        /\ app_log'.calls[1] = HookCall("update", state, state, history)
        /\ menus.taps[state].tapped
        /\ menus.taps[state].fired = 0
        /\ menus.taps[state].target = state'
        /\ menus'.taps[state].since >= NAV_DELAY
        /\ MenuOf(menus', state).pending_nav = None

\* A menu that is current holds an armed navigation only for a tap of this
\* visit, to the target of the tap.
ArmedInThisVisit ==
    \A id \in MenuIds :
        (state = id /\ MenuOf(menus, id).pending_nav # None) =>
            /\ menus.taps[id].tapped
            /\ menus.taps[id].fired = 0
            /\ menus.taps[id].target = MenuOf(menus, id).pending_nav.state

\* C28: a delayed navigation is never stale: go_to is called from the update
\* of the menu that was tapped, while that menu is current, at most once per
\* tap and not before the updates after the tap were called with 0.12 s in
\* all; a navigation that is armed when the menu is left is discarded when
\* the menu is entered again.
C28_NavigationNeverStale == []ArmedInThisVisit /\ [][NavigationInTime]_vars

\* C28 witness: the games menu was left by its back button with a navigation
\* armed, and on a later visit a card was tapped and its navigation has just
\* been made by an update.
C28_Witness ==
    /\ menus.discarded
    /\ state = FIREWORKS
    /\ history = <<MAIN_MENU, GAMES_MENU>>
    /\ app_log.op.name = "update"
    /\ menus.taps[GAMES_MENU] = [tapped |-> TRUE, target |-> FIREWORKS, since |-> NAV_DELAY, fired |-> 1]

\* ---------------------------------------------------------------------------
\* Claims about the emitters of the playground (checked under SpecPlayground)
\* ---------------------------------------------------------------------------

\* The frame deltas (tenths of a second) and the values of _rain_timer
\* (milliseconds) the emitters are probed with.
BurstDts == {0, 1, 20}
RainTimers == {0, 3, 5, 12}

\* The emit calls of a burst that asked for n of them on the pool w, r being
\* what the loop left: every call but the last returned True, a call that
\* returned False is the last one, no call failed, the calls are the n asked
\* for or stop at the first one that finds the pool full, and a burst that
\* is cut short leaves the pool full.
Backpressure(w, n, r) ==
    /\ \A k \in 1..Len(r.rets) :
          /\ r.rets[k] \in {"True", "False"}
          /\ r.rets[k] = "False" => k = Len(r.rets)
          /\ k < Len(r.rets) => r.rets[k] = "True"
    /\ Len(r.rets) = Min(n, Capacity - w.count + 1)
    /\ r.pool.count = Min(Capacity, w.count + n)
    /\ n > Capacity - w.count =>
          /\ r.pool.count = Capacity
          /\ r.rets[Len(r.rets)] = "False"

\* The playground with the mode, a touch and the rain timer set.
Emitting(m, t) == [Screen EXCEPT !.mode = m, !.touching = TRUE, !.rain_timer = t]

\* C31: in each of the fountain, rain, swirl and explosion emitters, once
\* pool.emit returns False no further emit call is made in the burst, a
\* burst that asks for more particles than the pool has room for ends with
\* count = capacity and no error, and the loop of the rain emitter ends
\* after at most one call per whole interval on its timer, each call taking
\* one interval off the timer.
C31_EmittersRespectBackpressure ==
    \A dt \in BurstDts, t \in RainTimers :
        /\ LET s == Emitting(MODE_FOUNTAIN, t)
               n == 12 * dt + 1
           IN  \A draws \in BurstDraws(s.mode, s.pool, n) :
                   LET r == EmitLoop(s.pool, n, draws, 1)
                   IN  /\ Backpressure(s.pool, n, r)
                       /\ ParticlePlaygroundScreen_emit_fountain(s, dt, draws).pool = r.pool
        /\ LET s == Emitting(MODE_SWIRL, t)
               n == 8 * dt + 1
           IN  \A draws \in BurstDraws(s.mode, s.pool, n) :
                   LET r == EmitLoop(s.pool, n, draws, 1)
                   IN  /\ Backpressure(s.pool, n, r)
                       /\ ParticlePlaygroundScreen_emit_swirl(s, dt, draws).pool = r.pool
        /\ LET s == Emitting(MODE_EXPLOSION, t)
           IN  \A draws \in BurstDraws(s.mode, s.pool, 150) :
                   LET r == EmitLoop(s.pool, 150, draws, 1)
                   IN  /\ Backpressure(s.pool, 150, r)
                       /\ ParticlePlaygroundScreen_emit_explosion(s, draws).pool = r.pool
        /\ LET s == Emitting(MODE_RAIN, t)
               timer == t + 100 * dt
               n == timer \div RainInterval
           IN  \A draws \in BurstDraws(s.mode, s.pool, n) :
                   LET r == RainLoop(s.pool, timer, draws, 1)
                       e == ParticlePlaygroundScreen_emit_rain(s, dt, draws)
                   IN  /\ Backpressure(s.pool, n, r)
                       /\ r.timer = timer - Len(r.rets) * RainInterval
                       /\ r.timer >= 0
                       /\ e.pool = r.pool /\ e.rain_timer = r.timer

\* C31 witness: an update has run the fountain and the pool is full: the
\* burst of that frame asked for more particles than the pool had room for.
C31_Witness ==
    /\ screen_log.op = "update"
    /\ mode = MODE_FOUNTAIN
    /\ touching
    /\ count = Capacity

\* ---------------------------------------------------------------------------
\* Claims about the fireworks (checked under SpecFireworks)
\* ---------------------------------------------------------------------------

\* The rocket the model numbered id is in flight.
InFlight(id) == \E k \in 1..Len(fireworks.rockets) : fireworks.rockets[k].id = id

\* C34 -- every launched rocket eventually explodes: while the fireworks are
\* updated frame after frame, whatever the frame deltas, a rocket in flight
\* is eventually removed from the list of rockets.
C34_EveryRocketExplodes ==
    \A id \in 1..MaxRockets : InFlight(id) ~> (~InFlight(id) \/ state # FIREWORKS)

\* C34 witness: a rocket has flown past its target and is outside the
\* detonation radius, where the update of some frame delta took it from the
\* place the same update will take it back to.
C34_Witness ==
    /\ state = FIREWORKS
    /\ fireworks.log.op = "update"
    /\ \E k \in 1..Len(fireworks.rockets) :
           LET r == fireworks.rockets[k]
           IN  /\ r.y < r.ty
               /\ ~Detonates(r)
               /\ \E dt \in FireworksDts :
                      /\ ~Detonates(Rocket_move(r, dt))
                      /\ Rocket_move(Rocket_move(r, dt), dt) = r

====
